---- MODULE Spec2Model ----
(***************************************************************************)
(* MyMail: the outbound transfer agent (scripts/sendsmtp) and the inbound  *)
(* intake (scripts/postsmtp, backend MailService.receiveEmail).            *)
(*                                                                         *)
(* Strings that the code splits or compares are sequences of tokens, so    *)
(* that strings.Split and the '@' tests are computed, not assumed.         *)
(***************************************************************************)
EXTENDS Integers, Sequences, FiniteSets, TLC

VARIABLES
    \* ---- sendsmtp: main ----
    jsonMail,            \* the parsed JSONMail: from, to, cc, bcc
    dns,                 \* the zone net.LookupMX answers from: domain -> error or records
    pc,                  \* position of the sendsmtp process
    recipientsByDomain,  \* map domain -> recipients, built by main
    visited,             \* keys the range loop of main has already produced
    netOps,              \* number of MX lookups and TCP dials performed so far
    outcomes,            \* domain -> what its sendToDomain call returned, as main saw it
    \* ---- sendsmtp: sendToDomain (locals of the running call) ----
    cur,                 \* its domain argument
    mxRecords,           \* the MX records after sort.Slice
    domainJsonMail,      \* the per-domain JSONMail: to, cc, bcc
    idx,                 \* loop index into mxRecords (1-based)
    lastErr,             \* the variable lastErr
    attemptedServers,    \* the slice attemptedServers (used for logging only)
    attempts,            \* log of the attempts made: host and the error of that attempt
    open,                \* indexes of the connections dialled and not yet closed
    deferred,            \* indexes whose conn.Close() is deferred to the return
    ret,                 \* the value sendToDomain returned
    \* ---- postsmtp and the backend receive path ----
    variant,             \* which postsmtp is running: "api" (backend API) or "db" (PostgreSQL)
    users,               \* usernames of the users table (the directory)
    store,               \* the mail table: records in insertion order
    nextUid,             \* the next identifier the UUID generator hands out
    ipc,                 \* "idle": waiting for the SMTP library; "done": a callback returned
    last,                \* the callback that returned last: its arguments and results
    \* ---- the message parsers (DB.StoreMessage, MailService.receiveEmail) ----
    msg,                 \* the message as written: header lines, body, line ending
    raw,                 \* the bytes handed to the parser
    parser,              \* the parser that ran: "go", "ts", or "none" before it
    parsed,              \* what it produced: headers and body
    \* ---- concurrent HandleMessage invocations (PostgreSQL variant) ----
    txs                  \* invocation -> its arguments, locals and position

varsMain == <<jsonMail, dns, pc, recipientsByDomain, visited, netOps, outcomes>>
varsDomain == <<cur, mxRecords, domainJsonMail, idx, lastErr, attemptedServers,
                attempts, open, deferred, ret>>
varsSend == <<varsMain, varsDomain>>
varsIntake == <<variant, users, store, nextUid, ipc, last>>
varsParse == <<msg, raw, parser, parsed>>
vars == <<varsSend, varsIntake, varsParse, txs>>

(***************************************************************************)
(* Bounds of the model.                                                    *)
(***************************************************************************)
MaxRcpt == 2        \* recipients of one outbound message, over to, cc and bcc
MaxMX == 2          \* MX records one lookup returns
MaxEnvelope == 2    \* recipients of one inbound envelope
MaxUid == 3         \* identifiers generated over the whole run
MaxHeaderLines == 3 \* lines of the header block of a parsed message
MaxTx == 2          \* concurrent invocations of HandleMessage

None == "none"
At == "@"

(***************************************************************************)
(* Helpers on sequences.                                                   *)
(***************************************************************************)
SeqsUpTo(S, n) == UNION {[1..k -> S] : k \in 0..n}

Min(S) == CHOOSE x \in S : \A y \in S : x <= y

Range(s) == {s[i] : i \in 1..Len(s)}

IsPrefix(s, t) == Len(s) <= Len(t) /\ SubSeq(t, 1, Len(s)) = s

\* strings.Split(s, "@"): the parts between the separators; never empty.
RECURSIVE Split(_)
Split(s) ==
    LET ats == {i \in 1..Len(s) : s[i] = At}
    IN  IF ats = {} THEN <<s>>
        ELSE LET i == Min(ats)
             IN  <<SubSeq(s, 1, i - 1)>> \o Split(SubSeq(s, i + 1, Len(s)))

\* strings.Contains(s, "@")
ContainsAt(s) == \E i \in 1..Len(s) : s[i] = At

\* contains(slice, item) of sendsmtp
contains(slice, item) == \E i \in 1..Len(slice) : slice[i] = item

(***************************************************************************)
(* Strings of the message parsers: text is a TLA+ string, and the library  *)
(* functions the parsers call are computed on it. Positions are those of   *)
(* the source: an index counts from 0 and is -1 when there is no match.    *)
(***************************************************************************)
Max(S) == CHOOSE x \in S : \A y \in S : x >= y

\* s[a:b] of Go, s.substring(a, b) of JavaScript
Slice(s, a, b) == SubSeq(s, a + 1, b)

\* s[a:]
SliceFrom(s, a) == SubSeq(s, a + 1, Len(s))

\* strings.Index(s, sub), s.indexOf(sub)
Index(s, sub) ==
    LET at == {i \in 0..(Len(s) - Len(sub)) : Slice(s, i, i + Len(sub)) = sub}
    IN  IF at = {} THEN -1 ELSE Min(at)

\* strings.Contains(s, sub), s.includes(sub)
Contains(s, sub) == Index(s, sub) # -1

\* strings.HasPrefix(s, prefix), s.startsWith(prefix)
HasPrefix(s, prefix) == Len(s) >= Len(prefix) /\ Slice(s, 0, Len(prefix)) = prefix

\* strings.HasSuffix(s, suffix)
HasSuffix(s, suffix) ==
    Len(s) >= Len(suffix) /\ SliceFrom(s, Len(s) - Len(suffix)) = suffix

\* strings.TrimSuffix(s, suffix)
TrimSuffix(s, suffix) ==
    IF HasSuffix(s, suffix) THEN Slice(s, 0, Len(s) - Len(suffix)) ELSE s

\* The white space strings.TrimSpace and String.prototype.trim remove, as far
\* as it occurs in the messages of this model.
WhiteSpace == {" ", "\t", "\n", "\r", "\f"}

\* The positions (from 1) of the characters of s that are not in cutset.
Kept(s, cutset) == {i \in 1..Len(s) : SubSeq(s, i, i) \notin cutset}

\* strings.TrimSpace(s), s.trim()
TrimSpace(s) ==
    IF Kept(s, WhiteSpace) = {} THEN ""
    ELSE SubSeq(s, Min(Kept(s, WhiteSpace)), Max(Kept(s, WhiteSpace)))

\* s.trimEnd()
trimEnd(s) ==
    IF Kept(s, WhiteSpace) = {} THEN "" ELSE SubSeq(s, 1, Max(Kept(s, WhiteSpace)))

\* strings.TrimRight(s, "\r")
TrimRightCR(s) ==
    IF Kept(s, {"\r"}) = {} THEN "" ELSE SubSeq(s, 1, Max(Kept(s, {"\r"})))

\* strings.Trim(s, "\"")
TrimQuotes(s) ==
    IF Kept(s, {"\""}) = {} THEN ""
    ELSE SubSeq(s, Min(Kept(s, {"\""})), Max(Kept(s, {"\""})))

\* strings.ReplaceAll(s, old, new), s.replace(/old/g, new); old is not empty.
RECURSIVE ReplaceAll(_, _, _)
ReplaceAll(s, old, new) ==
    LET i == Index(s, old)
    IN  IF i = -1 THEN s
        ELSE Slice(s, 0, i) \o new \o ReplaceAll(SliceFrom(s, i + Len(old)), old, new)

\* strings.Split(s, sep), s.split(sep): the pieces between the separators,
\* never an empty list; sep is not empty.
RECURSIVE StringsSplit(_, _)
StringsSplit(s, sep) ==
    LET i == Index(s, sep)
    IN  IF i = -1 THEN <<s>>
        ELSE <<Slice(s, 0, i)>> \o StringsSplit(SliceFrom(s, i + Len(sep)), sep)

UpperCase == "ABCDEFGHIJKLMNOPQRSTUVWXYZ"
LowerCase == "abcdefghijklmnopqrstuvwxyz"

\* One byte that is not valid UTF-8 (0xFF, or a Latin-1 letter such as 0xE9);
\* the text is a sequence of bytes, one character for each.
InvalidByte == "^"

\* The three bytes EF BF BD of U+FFFD, which strings.Map writes for a byte
\* it cannot decode.
RuneError == "???"

\* s.toLowerCase() on decoded text: the length is kept.
RECURSIVE toLowerCase(_)
toLowerCase(s) ==
    IF s = "" THEN ""
    ELSE LET c == SubSeq(s, 1, 1)
             i == Index(UpperCase, c)
         IN  (IF i = -1 THEN c ELSE Slice(LowerCase, i, i + 1)) \o toLowerCase(Tail(s))

\* strings.ToLower(s) on bytes: ASCII letters are lowered, a byte that is
\* not valid UTF-8 becomes the three bytes of U+FFFD.
RECURSIVE ToLower(_)
ToLower(s) ==
    IF s = "" THEN ""
    ELSE LET c == SubSeq(s, 1, 1)
             i == Index(UpperCase, c)
         IN  (IF c = InvalidByte THEN RuneError
              ELSE IF i = -1 THEN c ELSE Slice(LowerCase, i, i + 1))
             \o ToLower(Tail(s))

(***************************************************************************)
(* sendsmtp: inputs.                                                       *)
(***************************************************************************)
AddrAX == <<"a", At, "x">>
AddrBX == <<"b", At, "x">>
AddrCY == <<"c", At, "y">>
AddrNoAt == <<"a">>
AddrTwoAt == <<"a", At, "x", At, "y">>
SendAddrs == {AddrAX, AddrBX, AddrCY, AddrNoAt, AddrTwoAt}
Froms == {<<>>, <<"s", At, "z">>, <<"s">>}
SendDomains == {<<"x">>, <<"y">>}

\* The messages with at most n recipients over to, cc and bcc.
Mails(addrs, n) ==
    UNION {[from : Froms, to : [1..k[1] -> addrs], cc : [1..k[2] -> addrs],
            bcc : [1..k[3] -> addrs]] :
           k \in {l \in (0..n) \X (0..n) \X (0..n) : l[1] + l[2] + l[3] <= n}}

Hosts == 1..MaxMX
Prefs == {10, 20}
MX == [host : Hosts, pref : Prefs]

\* What net.LookupMX can return for a domain: an error, or a list of records
\* naming distinct hosts, in the resolver's order.
LookupError == [err |-> TRUE, recs |-> <<>>]
Records(s) == [err |-> FALSE, recs |-> s]

LookupResults ==
    {LookupError} \cup
    {Records(s) : s \in {t \in SeqsUpTo(MX, MaxMX) :
                            \A i, j \in 1..Len(t) : i # j => t[i].host # t[j].host}}

SmallLookupResults == {LookupError, Records(<<>>), Records(<<[host |-> 1, pref |-> 10]>>)}


\* The zones and messages the outbound runs start from: every message with a
\* small zone, and a one-recipient message with every lookup result.
SendInputs ==
    {<<m, z>> : m \in Mails(SendAddrs, MaxRcpt),
                z \in [SendDomains -> SmallLookupResults]}
    \cup
    {<<m, z>> : m \in {n \in Mails({AddrAX}, 1) : n.from = <<"s", At, "z">>},
                z \in {f \in [SendDomains -> LookupResults] : f[<<"y">>] = LookupError}}

(***************************************************************************)
(* sendsmtp: main.                                                         *)
(***************************************************************************)
allRecipients(m) == m.to \o m.cc \o m.bcc

\* The grouping loop rejects an address unless splitting on '@' gives two parts.
InvalidFormat(r) == Len(Split(r)) # 2

\* for _, recipient := range allRecipients { ... recipientsByDomain[domain] = append(...) }
GroupByDomain(rs) ==
    LET doms == {Split(rs[i])[2] : i \in 1..Len(rs)}
    IN  [d \in doms |-> LET InDomain(r) == Split(r)[2] = d
                        IN  SelectSeq(rs, InDomain)]

\* The checks of main before the sending loop: "fatal" is a log.Fatal exit.
Validation(m) ==
    IF m.from = <<>> THEN "fatal"
    ELSE IF Len(m.to) = 0 /\ Len(m.cc) = 0 /\ Len(m.bcc) = 0 THEN "fatal"
    ELSE IF \E i \in 1..Len(allRecipients(m)) : InvalidFormat(allRecipients(m)[i])
         THEN "fatal"
    ELSE "ok"

NoHost == 0
NoErr == [kind |-> None, addr |-> NoHost]
NoRet == [kind |-> None, lastErr |-> NoErr]
NoMail == [to |-> <<>>, cc |-> <<>>, bcc |-> <<>>]

NoLocals ==
    /\ cur = <<>>
    /\ mxRecords = <<>>
    /\ domainJsonMail = NoMail
    /\ idx = 0
    /\ lastErr = NoErr
    /\ attemptedServers = <<>>
    /\ attempts = <<>>
    /\ open = {}
    /\ deferred = {}
    /\ ret = NoRet

\* The inbound side before any callback has run.
NoCall == [op |-> None, rcptTo |-> <<>>, queried |-> <<>>, outcome |-> "ok",
           exists |-> FALSE, err |-> None, before |-> 0,
           lookupFailed |-> FALSE, storeCalled |-> FALSE, writeFailAt |-> 0]

\* No message has been handed to a parser.
NoMime == [form |-> "none", X |-> "", tail |-> "", later |-> "none"]
NoMsg == [lines |-> <<>>, body |-> "", eol |-> "\n", mime |-> NoMime, sep |-> TRUE]
NoParsed == [headers |-> <<>>, body |-> "", boundary |-> "", panic |-> FALSE]

ParseIdle ==
    /\ msg = NoMsg
    /\ raw = ""
    /\ parser = "none"
    /\ parsed = NoParsed

IntakeIdle ==
    /\ variant \in {"api", "db"}
    /\ users = {<<"alice">>, <<"bob">>}
    /\ store = <<>>
    /\ nextUid = 1
    /\ ipc = "idle"
    /\ last = NoCall
    /\ txs = <<>>

SendInit ==
    /\ IntakeIdle
    /\ ParseIdle
    /\ variant = "api"
    /\ \E inp \in SendInputs : jsonMail = inp[1] /\ dns = inp[2]
    /\ pc = "start"
    /\ recipientsByDomain = <<>>
    /\ visited = {}
    /\ netOps = 0
    /\ outcomes = <<>>
    /\ NoLocals

\* main, from the required-field checks to the end of the grouping loop.
Validate ==
    /\ pc = "start"
    /\ IF Validation(jsonMail) = "fatal"
       THEN pc' = "exit1" /\ UNCHANGED recipientsByDomain
       ELSE /\ pc' = "range"
            /\ recipientsByDomain' = GroupByDomain(allRecipients(jsonMail))
    /\ UNCHANGED <<jsonMail, dns, visited, netOps, outcomes, varsDomain>>
    /\ UNCHANGED <<varsIntake, varsParse, txs>>

\* for domain, recipients := range recipientsByDomain: the next key, in the
\* unspecified order of a Go map, and the call of sendToDomain.
RangeNext ==
    /\ pc = "range"
    /\ \E d \in (DOMAIN recipientsByDomain) \ visited :
        /\ cur' = d
        /\ visited' = visited \cup {d}
    /\ pc' = "lookup"
    /\ UNCHANGED <<jsonMail, dns, recipientsByDomain, netOps, outcomes, mxRecords,
                   domainJsonMail, idx, lastErr, attemptedServers, attempts,
                   open, deferred, ret>>
    /\ UNCHANGED <<varsIntake, varsParse, txs>>

\* The loop is over: fmt.Println("Email sent successfully to all recipients!")
RangeDone ==
    /\ pc = "range"
    /\ visited = DOMAIN recipientsByDomain
    /\ pc' = "exit0"
    /\ UNCHANGED <<jsonMail, dns, recipientsByDomain, visited, netOps, outcomes,
                   varsDomain>>
    /\ UNCHANGED <<varsIntake, varsParse, txs>>

\* The error of a domain is logged and the loop goes on.
OnReturnLogOnly(r) == "range"

\* if err := sendToDomain(...); err != nil { log.Fatalf(...) }: the process
\* exits with status 1, or the loop goes on.
OnReturn(r) == IF r.kind = "ok" THEN "range" ELSE "exit1"

\* The return of sendToDomain to the loop of main; the locals of the finished
\* call are gone.
AfterReturn ==
    /\ pc = "returned"
    /\ pc' = OnReturn(ret)
    /\ outcomes' = [d \in DOMAIN outcomes \cup {cur} |->
                        IF d = cur THEN ret.kind ELSE outcomes[d]]
    /\ cur' = <<>>
    /\ mxRecords' = <<>>
    /\ domainJsonMail' = NoMail
    /\ idx' = 0
    /\ lastErr' = NoErr
    /\ attemptedServers' = <<>>
    /\ attempts' = <<>>
    /\ open' = {}
    /\ deferred' = {}
    /\ ret' = NoRet
    /\ UNCHANGED <<jsonMail, dns, recipientsByDomain, visited, netOps>>
    /\ UNCHANGED <<varsIntake, varsParse, txs>>


(***************************************************************************)
(* sendsmtp: sendToDomain.                                                 *)
(***************************************************************************)
\* less(i, j) of the sort: mxRecords[i].Pref < mxRecords[j].Pref
LessPref(a, b) == a.pref < b.pref

SortedByPref(s) == \A i, j \in 1..Len(s) : i < j => ~LessPref(s[j], s[i])

\* The records left in the resolver's order.
SortSliceOmitted(s) == {s}

\* sort.Slice(mxRecords, less): the slices it may leave behind. sort.Slice is
\* not a stable sort, so every ordering of the same records that less accepts
\* is a possible outcome.
SortSlice(s) ==
    {t \in [1..Len(s) -> Range(s)] : Range(t) = Range(s) /\ SortedByPref(t)}

\* The loop that fills domainJsonMail.To, .CC and .BCC from recipients.
DomainMail(m, recipients) ==
    LET InTo(r) == contains(m.to, r)
        InCC(r) == ~contains(m.to, r) /\ contains(m.cc, r)
        InBCC(r) == ~contains(m.to, r) /\ ~contains(m.cc, r) /\ contains(m.bcc, r)
    IN  [to |-> SelectSeq(recipients, InTo),
         cc |-> SelectSeq(recipients, InCC),
         bcc |-> SelectSeq(recipients, InBCC)]

\* What the dial of one candidate and the SMTP session on it can end with.
DialErrors == {"refused", "timeout"}
SessionErrors == {"smtpErr", "nilClientConn"}

\* A break in place of the continue: the loop is left.
ContinueAsBreak(i) == i + MaxMX

\* The failed candidate is tried again.
ContinueAsRetry(i) == i

\* The index the loop goes on with after a failed attempt on candidate i.
Continue(i) == i + 1

\* The test for an empty answer left out.
NoMXRecordsUnchecked(recs) == FALSE

\* if len(mxRecords) == 0
NoMXRecords(recs) == Len(recs) = 0

\* net.LookupMX, the two early returns, the sort and the per-domain JSONMail.
LookupMX ==
    /\ pc = "lookup"
    /\ netOps' = netOps + 1
    /\ IF dns[cur].err
       THEN /\ ret' = [kind |-> "resolveError", lastErr |-> NoErr]
            /\ pc' = "returned"
            /\ UNCHANGED <<mxRecords, domainJsonMail, idx>>
       ELSE IF NoMXRecords(dns[cur].recs)
       THEN /\ ret' = [kind |-> "noMX", lastErr |-> NoErr]
            /\ pc' = "returned"
            /\ UNCHANGED <<mxRecords, domainJsonMail, idx>>
       ELSE /\ mxRecords' \in SortSlice(dns[cur].recs)
            /\ domainJsonMail' = DomainMail(jsonMail, recipientsByDomain[cur])
            /\ idx' = 1
            /\ pc' = "dial"
            /\ UNCHANGED ret
    /\ UNCHANGED <<jsonMail, dns, recipientsByDomain, visited, outcomes, cur,
                   lastErr, attemptedServers, attempts, open, deferred>>
    /\ UNCHANGED <<varsIntake, varsParse, txs>>

\* One iteration up to dialer.Dial: on an error lastErr is set and the loop
\* continues with the next record.
Dial ==
    /\ pc = "dial"
    /\ idx <= Len(mxRecords)
    /\ netOps' = netOps + 1
    /\ attemptedServers' = Append(attemptedServers, mxRecords[idx])
    /\ \/ \E e \in DialErrors :
            /\ lastErr' = [kind |-> e, addr |-> mxRecords[idx].host]
            /\ attempts' = Append(attempts, [host |-> mxRecords[idx].host, err |-> e])
            /\ idx' = Continue(idx)
            /\ UNCHANGED <<pc, open>>
       \/ /\ open' = open \cup {idx}
          /\ pc' = "session"
          /\ UNCHANGED <<lastErr, attempts, idx>>
    /\ UNCHANGED <<jsonMail, dns, recipientsByDomain, visited, outcomes, cur,
                   mxRecords, domainJsonMail, deferred, ret>>
    /\ UNCHANGED <<varsIntake, varsParse, txs>>

\* smtp.NewClientConnFromJSONMail on the open connection, the defer of
\* conn.Close(), and the check of its result. Whether the library has closed
\* the connection itself when it returns (QUIT) is not known to this code.
Session ==
    /\ pc = "session"
    /\ \E libClosed \in BOOLEAN :
        LET stillOpen == IF libClosed THEN open \ {idx} ELSE open
        IN  \/ \E e \in SessionErrors :
                 /\ lastErr' = [kind |-> e, addr |-> NoHost]
                 /\ attempts' = Append(attempts, [host |-> mxRecords[idx].host, err |-> e])
                 /\ idx' = Continue(idx)
                 /\ open' = stillOpen
                 /\ deferred' = deferred \cup {idx}
                 /\ pc' = "dial"
                 /\ UNCHANGED ret
            \/ /\ attempts' = Append(attempts, [host |-> mxRecords[idx].host, err |-> None])
               /\ ret' = [kind |-> "ok", lastErr |-> NoErr]
               /\ open' = stillOpen \ (deferred \cup {idx})
               /\ deferred' = {}
               /\ pc' = "returned"
               /\ UNCHANGED <<lastErr, idx>>
    /\ UNCHANGED <<jsonMail, dns, recipientsByDomain, visited, netOps, outcomes,
                   cur, mxRecords, domainJsonMail, attemptedServers>>
    /\ UNCHANGED <<varsIntake, varsParse, txs>>

\* The loop ran out of records: the error return, which carries the domain,
\* the number of records and lastErr; the deferred closes run.
AllFailed ==
    /\ pc = "dial"
    /\ idx > Len(mxRecords)
    /\ ret' = [kind |-> "allFailed", lastErr |-> lastErr]
    /\ open' = open \ deferred
    /\ deferred' = {}
    /\ pc' = "returned"
    /\ UNCHANGED <<jsonMail, dns, recipientsByDomain, visited, netOps, outcomes,
                   cur, mxRecords, domainJsonMail, idx, lastErr, attemptedServers,
                   attempts>>
    /\ UNCHANGED <<varsIntake, varsParse, txs>>

SendNext ==
    \/ Validate
    \/ RangeNext
    \/ RangeDone
    \/ AfterReturn
    \/ LookupMX
    \/ Dial
    \/ Session
    \/ AllFailed

Spec == SendInit /\ [][SendNext]_vars

\* The blocking calls of the loop return: dialer.Dial after at most its
\* Timeout of 10 seconds, the SMTP conversation by the read and write
\* deadlines set on the connection, and the return after the loop is one
\* statement. Nothing is assumed of net.LookupMX or of the steps of main.
TimedSpec ==
    /\ SendInit
    /\ [][SendNext]_vars
    /\ WF_vars(Dial)
    /\ WF_vars(Session)
    /\ WF_vars(AllFailed)


(***************************************************************************)
(* Properties of the outbound transfer agent.                              *)
(***************************************************************************)
HostsOf(s) == [i \in 1..Len(s) |-> s[i].host]

InCall == cur # <<>> /\ mxRecords # <<>>

\* C1: sendToDomain attempts the MX candidates in ascending preference order,
\* each only after every earlier one has failed, and none after the first
\* success: the hosts attempted are a prefix of the resolver's records ordered
\* ascending by preference, and on success the last one is the accepting host.
C1_OrderedFailover ==
    InCall =>
        /\ Len(mxRecords) = Len(dns[cur].recs)
        /\ Range(mxRecords) = Range(dns[cur].recs)
        /\ \A i, j \in 1..Len(mxRecords) :
               i < j => mxRecords[i].pref <= mxRecords[j].pref
        /\ IsPrefix(attemptedServers, mxRecords)
        /\ IsPrefix(HostsOf(attempts), HostsOf(attemptedServers))
        /\ Len(attemptedServers) - Len(attempts) = (IF pc = "session" THEN 1 ELSE 0)
        /\ \A i \in 1..Len(attempts) : i < Len(attemptedServers) => attempts[i].err # None
        /\ ret.kind = "ok" =>
               /\ attempts # <<>>
               /\ attempts[Len(attempts)].err = None
               /\ Len(attempts) = Len(attemptedServers)

\* C1 witness: the resolver returned (h, 20) before (h', 10), the preferred
\* host failed and the second one accepted.
C1_Witness ==
    /\ pc = "returned"
    /\ ret.kind = "ok"
    /\ Len(dns[cur].recs) = 2
    /\ dns[cur].recs[1].pref > dns[cur].recs[2].pref
    /\ Len(attempts) = 2

\* C2: Send attempts delivery for every recipient domain whatever happens to
\* the other domains: when the process ends after validation, sendToDomain
\* has been called for every key of recipientsByDomain.
C2_AllDomainsAttempted ==
    (pc \in {"exit0", "exit1"} /\ Validation(jsonMail) = "ok")
        => visited = DOMAIN recipientsByDomain

\* The (host, error) pairs a value returned by sendToDomain carries.
CarriedAttempts(r) ==
    IF r.lastErr.kind = None THEN <<>>
    ELSE <<[host |-> r.lastErr.addr, err |-> r.lastErr.kind]>>

\* C4: when every candidate has failed, the value sendToDomain returns carries
\* every attempted host with the error of its own attempt, in attempt order.
C4_FailureCarriesEveryAttempt ==
    ret.kind = "allFailed" => CarriedAttempts(ret) = attempts

\* A failed attempt on candidate i never ends the delivery while candidate i+1
\* exists: the loop goes on with candidate i+1 and nothing is returned.
C5_FailedAttemptStep ==
    (/\ Len(attempts') = Len(attempts) + 1
     /\ attempts'[Len(attempts')].err # None
     /\ idx < Len(mxRecords))
        => (pc' = "dial" /\ idx' = idx + 1 /\ ret' = NoRet /\ mxRecords' = mxRecords)

\* The all-failed return happens only after every candidate has failed; with
\* two candidates, a connect timeout on the first and an accepting second give
\* exactly one attempt on each.
C5_FailureOnlyAfterLast ==
    /\ ret.kind = "allFailed" =>
           /\ HostsOf(attempts) = HostsOf(mxRecords)
           /\ \A i \in 1..Len(attempts) : attempts[i].err # None
    /\ (ret.kind = "ok" /\ Len(mxRecords) = 2 /\ Len(attempts) > 0
            /\ attempts[1].err = "timeout") =>
           attempts = <<[host |-> mxRecords[1].host, err |-> "timeout"],
                        [host |-> mxRecords[2].host, err |-> None]>>

\* C5: after a failed attempt on a candidate that has a successor the loop
\* continues with that successor, and the domain-level failure is returned
\* only after the last candidate has failed.
C5_FailureContinues == [][C5_FailedAttemptStep]_vars /\ []C5_FailureOnlyAfterLast

\* C5 witness: [(mx1,10),(mx2,20)], mx1 timed out on connect, mx2 accepted.
C5_Witness ==
    /\ ret.kind = "ok"
    /\ mxRecords = <<[host |-> 1, pref |-> 10], [host |-> 2, pref |-> 20]>>
    /\ attempts = <<[host |-> 1, err |-> "timeout"], [host |-> 2, err |-> None]>>

\* C6: each attempt owns its connection: at most one connection of the domain
\* is open at any time, and none is open when sendToDomain has returned.
C6_OneConnectionAtATime ==
    /\ Cardinality(open) <= 1
    /\ pc = "returned" => open = {}

ExactlyOneAt(a) == Cardinality({i \in 1..Len(a) : a[i] = At}) = 1

Malformed(m) ==
    \/ m.from = <<>>
    \/ allRecipients(m) = <<>>
    \/ ~ExactlyOneAt(m.from)
    \/ \E i \in 1..Len(allRecipients(m)) : ~ExactlyOneAt(allRecipients(m)[i])

\* C7: a malformed message (empty from, no recipient, or an address without
\* exactly one '@') is rejected before any network activity: no MX lookup and
\* no dial is ever performed for it, and the process does not end successfully.
C7_MalformedNoNetwork ==
    Malformed(jsonMail) => (netOps = 0 /\ pc # "exit0")

\* The addresses of a list whose domain (the text after the '@') is d.
Restricted(list, d) ==
    LET Of(r) == ExactlyOneAt(r) /\ SubSeq(r, Len(r) - Len(d) + 1, Len(r)) = d
                     /\ r[Len(r) - Len(d)] = At
    IN  SelectSeq(list, Of)

\* C8: the per-domain message has To, CC and BCC equal to the original To, CC
\* and BCC restricted to the addresses of the domain: every occurrence stays
\* in its field, none is dropped, duplicated or moved.
C8_FieldsPreserved ==
    InCall =>
        /\ domainJsonMail.to = Restricted(jsonMail.to, cur)
        /\ domainJsonMail.cc = Restricted(jsonMail.cc, cur)
        /\ domainJsonMail.bcc = Restricted(jsonMail.bcc, cur)

\* C14: a failed MX resolution is a failure of the domain with no delivery
\* attempt: when the lookup returns an error or no record, sendToDomain
\* returns an error without dialling any host and without an SMTP session.
C14_ResolutionFailureNoAttempt ==
    (cur # <<>> /\ (dns[cur].err \/ Len(dns[cur].recs) = 0))
        => /\ pc \in {"lookup", "returned"}
           /\ attemptedServers = <<>>
           /\ attempts = <<>>
           /\ open = {}
           /\ pc = "returned" => ret.kind \in {"resolveError", "noMX"}

\* C14 witness: the resolver answered without error and without records, and
\* sendToDomain has returned.
C14_Witness ==
    /\ pc = "returned"
    /\ ~dns[cur].err
    /\ dns[cur].recs = <<>>
    /\ ret.kind = "noMX"

\* The position of record r in the list s.
PositionIn(s, r) == CHOOSE i \in 1..Len(s) : s[i] = r

C16_ExitCode ==
    /\ pc = "exit0" =>
           /\ Validation(jsonMail) = "ok"
           /\ DOMAIN outcomes = DOMAIN recipientsByDomain
           /\ \A d \in DOMAIN outcomes : outcomes[d] = "ok"
    /\ (\E d \in DOMAIN outcomes : outcomes[d] # "ok") => pc = "exit1"

\* C16 witness: two recipient domains, both delivered, status 0.
C16_Witness ==
    /\ pc = "exit0"
    /\ Cardinality(DOMAIN outcomes) = 2


(***************************************************************************)
(* postsmtp and the backend receive path.                                  *)
(***************************************************************************)
Alice == <<"alice">>
AliceX == <<"alice", At, "x">>
BobX == <<"bob", At, "x">>
CarolX == <<"carol", At, "x">>
IntakeAddrs == {AliceX, BobX, CarolX, Alice}
Usernames == {<<"alice">>, <<"carol">>}
Senders == {<<"s", At, "z">>}

\* How a call of the directory can fail: the request, the status, the reply.
LookupFailures == {"transport", "status", "parse"}

\* AuthService.userExistsByUsername: findOne({ where: { username } }) !== null
userExistsByUsername(username) == username \in users

\* A validator that fails open: a failed call is answered "exists".
ValidateUserFailOpen(username, outcome) ==
    IF outcome = "ok"
    THEN [exists |-> userExistsByUsername(username), err |-> None]
    ELSE [exists |-> TRUE, err |-> None]

\* Client.ValidateUser(username): (exists, err). outcome is what happens to
\* the GET /auth/validate-user/:username call.
ValidateUser(username, outcome) ==
    IF outcome = "ok"
    THEN [exists |-> userExistsByUsername(username), err |-> None]
    ELSE [exists |-> FALSE, err |-> outcome]

\* DB.ValidateRecipient(username): a bool; a failed query is logged and false.
ValidateRecipient(username, outcome) ==
    IF outcome = "ok" THEN username \in users ELSE FALSE

\* The outcome of the k-th call when the failAt-th one fails with kind.
OutcomeAt(k, failAt, kind) == IF k = failAt THEN kind ELSE "ok"

\* The validation loop of MessageHandler.HandleMessage (backend API variant),
\* from recipient k on: the error returned, the usernames sent to the
\* directory and the failure of the directory met, if any.
RECURSIVE ValidateAll(_, _, _, _)
ValidateAll(rcptTo, k, failAt, kind) ==
    IF k > Len(rcptTo) THEN [err |-> None, queried |-> <<>>, outcome |-> "ok"]
    ELSE LET parts == Split(rcptTo[k])
         IN  IF Len(parts) = 0
             THEN [err |-> "invalidFormat", queried |-> <<>>, outcome |-> "ok"]
             ELSE LET username == parts[1]
                      v == ValidateUser(username, OutcomeAt(k, failAt, kind))
                  IN  IF v.err # None
                      THEN [err |-> "validateFailed", queried |-> <<username>>,
                            outcome |-> kind]
                      ELSE IF ~v.exists
                      THEN [err |-> "notFound", queried |-> <<username>>,
                            outcome |-> "ok"]
                      ELSE LET rest == ValidateAll(rcptTo, k + 1, failAt, kind)
                           IN  [rest EXCEPT !.queried = <<username>> \o @]

\* The validation loop of MessageHandler.HandleMessage (PostgreSQL variant).
RECURSIVE ValidateAllDB(_, _, _)
ValidateAllDB(rcptTo, k, failAt) ==
    IF k > Len(rcptTo) THEN [err |-> None, queried |-> <<>>, outcome |-> "ok"]
    ELSE LET parts == Split(rcptTo[k])
         IN  IF Len(parts) = 0
             THEN [err |-> "invalidFormat", queried |-> <<>>, outcome |-> "ok"]
             ELSE LET username == parts[1]
                  IN  IF ~ValidateRecipient(username, OutcomeAt(k, failAt, "query"))
                      THEN [err |-> "notFound", queried |-> <<username>>,
                            outcome |-> OutcomeAt(k, failAt, "query")]
                      ELSE LET rest == ValidateAllDB(rcptTo, k + 1, failAt)
                           IN  [rest EXCEPT !.queried = <<username>> \o @]

\* The validation loop left out.
receiveValidateNone(rcptTo, k, dbFailAt) == "ok"

\* The validation loop of MailService.receiveEmail, from recipient k on: the
\* exception thrown, if any. The dbFailAt-th query of the users table throws.
RECURSIVE receiveValidate(_, _, _)
receiveValidate(rcptTo, k, dbFailAt) ==
    IF k > Len(rcptTo) THEN "ok"
    ELSE IF ~ContainsAt(rcptTo[k]) THEN "badRequest"
    ELSE IF k = dbFailAt THEN "serverError"
    ELSE IF ~userExistsByUsername(Split(rcptTo[k])[1]) THEN "badRequest"
    ELSE receiveValidate(rcptTo, k + 1, dbFailAt)

\* One identifier used for every record of a message.
uuidShared(uid) == uid

\* uuidv4() / uuid.New(): the identifier generated after uid; never one that
\* was generated before.
uuidNew(uid) == uid + 1

\* The storage loop of MailService.receiveEmail, from recipient k on, uid being
\* the next fresh identifier: the records saved, the identifiers used, and
\* whether the saveFailAt-th save threw.
RECURSIVE receiveStore(_, _, _, _, _)
receiveStore(mailFrom, rcptTo, k, saveFailAt, uid) ==
    IF k > Len(rcptTo) THEN [records |-> <<>>, uid |-> uid, threw |-> FALSE]
    ELSE IF k = saveFailAt THEN [records |-> <<>>, uid |-> uuidNew(uid), threw |-> TRUE]
    ELSE LET rest == receiveStore(mailFrom, rcptTo, k + 1, saveFailAt, uuidNew(uid))
         IN  [rest EXCEPT !.records =
                 <<[uid |-> uid, recipient |-> rcptTo[k], sender |-> mailFrom]>> \o @]

\* The writes of a call are undone when a later one fails.
RolledBack(records) == <<>>

\* Every write is a statement of its own (db.conn.Exec, mailRepository.save),
\* outside any transaction: what was written before a failure stays.
Committed(records) == records

\* MailService.receiveEmail: the reply, what it did to the mail table, and
\* the save that threw (0 if none).
receiveEmail(mailFrom, rcptTo, dbFailAt, saveFailAt, uid) ==
    LET v == receiveValidate(rcptTo, 1, dbFailAt)
        st == receiveStore(mailFrom, rcptTo, 1, saveFailAt, uid)
    IN  IF v # "ok" THEN [status |-> v, records |-> <<>>, uid |-> uid, threwAt |-> 0]
        ELSE IF st.threw
        THEN [status |-> "serverError", records |-> Committed(st.records),
              uid |-> st.uid, threwAt |-> saveFailAt]
        ELSE IF Len(st.records) = 0
        THEN [status |-> "badRequest", records |-> <<>>, uid |-> st.uid, threwAt |-> 0]
        ELSE [status |-> "created", records |-> st.records, uid |-> st.uid,
              threwAt |-> 0]

\* The insert loop of DB.StoreMessage, from recipient k on; uid is messageUID,
\* the identifier already generated for the next insert.
RECURSIVE StoreLoop(_, _, _, _, _)
StoreLoop(mailFrom, rcptTo, k, insertFailAt, uid) ==
    IF k > Len(rcptTo) THEN [records |-> <<>>, uid |-> uid, err |-> None]
    ELSE IF ~ContainsAt(rcptTo[k])
    THEN StoreLoop(mailFrom, rcptTo, k + 1, insertFailAt, uid)
    ELSE IF k = insertFailAt THEN [records |-> <<>>, uid |-> uid, err |-> "storeFailed"]
    ELSE LET rest == StoreLoop(mailFrom, rcptTo, k + 1, insertFailAt, uuidNew(uid))
         IN  [rest EXCEPT !.records =
                 <<[uid |-> uid, recipient |-> rcptTo[k], sender |-> mailFrom]>> \o @]

\* DB.StoreMessage: messageUID := uuid.New() and the insert loop.
StoreMessage(mailFrom, rcptTo, insertFailAt, uid) ==
    LET r == StoreLoop(mailFrom, rcptTo, 1, insertFailAt, uid)
    IN  [r EXCEPT !.uid = @ + 1,
                  !.records = IF r.err # None THEN Committed(@) ELSE @]

IntakeInit ==
    /\ IntakeIdle
    /\ ParseIdle
    /\ jsonMail = [from |-> <<>>, to |-> <<>>, cc |-> <<>>, bcc |-> <<>>]
    /\ dns = [d \in SendDomains |-> LookupError]
    /\ pc = "off"
    /\ recipientsByDomain = <<>>
    /\ visited = {}
    /\ netOps = 0
    /\ outcomes = <<>>
    /\ NoLocals


Returned(op, rcptTo, queried, outcome, exists, err) ==
    [op |-> op, rcptTo |-> rcptTo, queried |-> queried, outcome |-> outcome,
     exists |-> exists, err |-> err, before |-> Len(store),
     lookupFailed |-> FALSE, storeCalled |-> FALSE, writeFailAt |-> 0]

\* The same for HandleMessage: whether a lookup of its validation loop failed
\* (the failAt-th lookup fails, and the loop got that far) and whether it went
\* on to the storage call.
ReturnedHM(rcptTo, queried, outcome, err, failAt, storeCalled) ==
    [Returned("HandleMessage", rcptTo, queried, outcome, FALSE, err)
        EXCEPT !.lookupFailed = failAt \in 1..Len(queried),
               !.storeCalled = storeCalled]

DirectoryOutcomes == {"ok"} \cup LookupFailures

\* The body of handlers.EmailExistsChecker (backend API variant).
EmailExists(email, outcome) ==
    LET parts == Split(email)
    IN  IF Len(parts) = 0
        THEN Returned("EmailExistsChecker", <<email>>, <<>>, "ok", FALSE, None)
        ELSE LET v == ValidateUser(parts[1], outcome)
             IN  Returned("EmailExistsChecker", <<email>>, <<parts[1]>>, outcome,
                          IF v.err # None THEN FALSE ELSE v.exists, None)

\* The body of handlers.EmailExistsChecker (PostgreSQL variant).
EmailExistsDB(email, outcome) ==
    LET parts == Split(email)
    IN  IF Len(parts) = 0
        THEN Returned("EmailExistsChecker", <<email>>, <<>>, "ok", FALSE, None)
        ELSE Returned("EmailExistsChecker", <<email>>, <<parts[1]>>, outcome,
                      ValidateRecipient(parts[1], outcome), None)

\* The SMTP library asks the hook about the address of a RCPT TO.
EmailExistsChecker ==
    /\ ipc = "idle"
    /\ variant = "api"
    /\ \E email \in IntakeAddrs, outcome \in DirectoryOutcomes :
           last' = EmailExists(email, outcome)
    /\ ipc' = "done"
    /\ UNCHANGED <<variant, users, store, nextUid, varsSend, varsParse, txs>>

EmailExistsCheckerDB ==
    /\ ipc = "idle"
    /\ variant = "db"
    /\ \E email \in IntakeAddrs, outcome \in {"ok", "query"} :
           last' = EmailExistsDB(email, outcome)
    /\ ipc' = "done"
    /\ UNCHANGED <<variant, users, store, nextUid, varsSend, varsParse, txs>>

\* A call of Client.ValidateUser as its callers see it.
ValidateUserCall ==
    /\ ipc = "idle"
    /\ variant = "api"
    /\ \E username \in Usernames, outcome \in DirectoryOutcomes :
           LET v == ValidateUser(username, outcome)
           IN  last' = Returned("ValidateUser", <<username>>, <<username>>, outcome,
                                v.exists, v.err)
    /\ ipc' = "done"
    /\ UNCHANGED <<variant, users, store, nextUid, varsSend, varsParse, txs>>

\* A call of DB.ValidateRecipient as its callers see it.
ValidateRecipientCall ==
    /\ ipc = "idle"
    /\ variant = "db"
    /\ \E username \in Usernames, outcome \in {"ok", "query"} :
           last' = Returned("ValidateRecipient", <<username>>, <<username>>, outcome,
                            ValidateRecipient(username, outcome), None)
    /\ ipc' = "done"
    /\ UNCHANGED <<variant, users, store, nextUid, varsSend, varsParse, txs>>

\* What can happen to the POST /mail/receive of Client.ReceiveEmail: answered;
\* failed before the backend ran; failed after the backend ran.
ApiOutcomes == {"ok", "transport", "responseLost"}

\* MessageHandler.HandleMessage (backend API variant): the validation loop,
\* then Client.ReceiveEmail, which runs MailService.receiveEmail.
HandleMessage ==
    /\ ipc = "idle"
    /\ variant = "api"
    /\ \E mailFrom \in Senders, rcptTo \in SeqsUpTo(IntakeAddrs, MaxEnvelope) :
       \E failAt \in 0..Len(rcptTo), kind \in LookupFailures :
           /\ failAt = 0 => kind = "transport"
           /\ LET v == ValidateAll(rcptTo, 1, failAt, kind)
              IN  IF v.err # None
                  THEN /\ last' = ReturnedHM(rcptTo, v.queried, v.outcome, v.err,
                                             failAt, FALSE)
                       /\ UNCHANGED <<store, nextUid>>
                  ELSE \E api \in ApiOutcomes, dbFailAt \in 0..Len(rcptTo),
                          saveFailAt \in 0..Len(rcptTo) :
                         LET b == receiveEmail(mailFrom, rcptTo, dbFailAt,
                                               saveFailAt, nextUid)
                             ran == api # "transport"
                             err == IF api = "ok" /\ b.status = "created"
                                    THEN None ELSE "storeFailed"
                             outcome == IF api # "ok" THEN api
                                        ELSE IF b.status = "serverError"
                                        THEN "serverError" ELSE "ok"
                         IN  /\ store' = IF ran THEN store \o b.records ELSE store
                             /\ nextUid' = IF ran THEN b.uid ELSE nextUid
                             /\ last' = [ReturnedHM(rcptTo, v.queried, outcome, err,
                                                    failAt, TRUE)
                                            EXCEPT !.writeFailAt =
                                                       IF ran THEN b.threwAt ELSE 0]
    /\ nextUid' <= MaxUid + 1
    /\ ipc' = "done"
    /\ UNCHANGED <<variant, users, varsSend, varsParse, txs>>

\* A POST /mail/receive served by MailService.receiveEmail, for any envelope.
ReceiveEmailCall ==
    /\ ipc = "idle"
    /\ variant = "api"
    /\ \E mailFrom \in Senders, rcptTo \in SeqsUpTo(IntakeAddrs, MaxEnvelope) :
       \E dbFailAt \in 0..Len(rcptTo), saveFailAt \in 0..Len(rcptTo) :
           LET b == receiveEmail(mailFrom, rcptTo, dbFailAt, saveFailAt, nextUid)
           IN  /\ store' = store \o b.records
               /\ nextUid' = b.uid
               /\ last' = [Returned("receiveEmail", rcptTo, <<>>, b.status, FALSE,
                                    IF b.status = "created" THEN None ELSE b.status)
                              EXCEPT !.writeFailAt = b.threwAt]
    /\ nextUid' <= MaxUid + 1
    /\ ipc' = "done"
    /\ UNCHANGED <<variant, users, varsSend, varsParse, txs>>

\* How the sendsmtp process started by execFile can end: exit status 0, a
\* non-zero exit status, killed at the timeout of 60 seconds, not started.
ExecOutcomes == {"exit0", "exit1", "timeout", "spawn"}

\* The error of the process is logged and the call returns normally.
ExecErrorLogged(o) == None

\* try { await execFileAsync(...) } catch { throw InternalServerError }:
\* execFile rejects unless the process exited with status 0.
ExecError(o) == IF o = "exit0" THEN None ELSE "serverError"

\* MailService.sendEmail up to await this.mailRepository.save(mail): the
\* public key of the recipient, the encryption, the identifier, the save.
SendEmailSave ==
    /\ ipc = "idle"
    /\ variant = "api"
    /\ \E sender \in Senders, recipient \in IntakeAddrs,
          early \in {"none", "noKey", "encryptFailed", "saveFailed"} :
        IF early = "noKey"
        THEN /\ last' = Returned("sendEmail", <<recipient>>, <<>>, early, FALSE,
                                 "badRequest")
             /\ ipc' = "done"
             /\ UNCHANGED <<store, nextUid>>
        ELSE IF early = "encryptFailed"
        THEN /\ last' = Returned("sendEmail", <<recipient>>, <<>>, early, FALSE,
                                 "serverError")
             /\ ipc' = "done"
             /\ UNCHANGED <<store, nextUid>>
        ELSE IF early = "saveFailed"
        THEN /\ last' = Returned("sendEmail", <<recipient>>, <<>>, early, FALSE,
                                 "serverError")
             /\ ipc' = "done"
             /\ nextUid' = uuidNew(nextUid)
             /\ UNCHANGED store
        ELSE /\ store' = Append(store, [uid |-> nextUid, recipient |-> recipient,
                                        sender |-> sender])
             /\ nextUid' = uuidNew(nextUid)
             /\ last' = Returned("sendEmail", <<recipient>>, <<>>, "saved", FALSE, None)
             /\ ipc' = "sending"
    /\ nextUid' <= MaxUid + 1
    /\ UNCHANGED <<variant, users, varsSend, varsParse, txs>>

\* The rest of MailService.sendEmail: sendsmtp is run with the message, and
\* the call returns 'Email sent successfully' or throws.
SendEmailExec ==
    /\ ipc = "sending"
    /\ \E o \in ExecOutcomes :
           last' = [last EXCEPT !.outcome = o, !.err = ExecError(o)]
    /\ ipc' = "done"
    /\ UNCHANGED <<variant, users, store, nextUid, varsSend, varsParse, txs>>

\* MessageHandler.HandleMessage (PostgreSQL variant): the validation loop,
\* then DB.StoreMessage.
HandleMessageDB ==
    /\ ipc = "idle"
    /\ variant = "db"
    /\ \E mailFrom \in Senders, rcptTo \in SeqsUpTo(IntakeAddrs, MaxEnvelope) :
       \E failAt \in 0..Len(rcptTo) :
           LET v == ValidateAllDB(rcptTo, 1, failAt)
           IN  IF v.err # None
               THEN /\ last' = ReturnedHM(rcptTo, v.queried, v.outcome, v.err,
                                          failAt, FALSE)
                    /\ UNCHANGED <<store, nextUid>>
               ELSE \E insertFailAt \in 0..Len(rcptTo) :
                      LET r == StoreMessage(mailFrom, rcptTo, insertFailAt, nextUid)
                      IN  /\ store' = store \o r.records
                          /\ nextUid' = r.uid
                          /\ last' = [ReturnedHM(rcptTo, v.queried,
                                                 IF r.err # None THEN "insert" ELSE "ok",
                                                 r.err, failAt, TRUE)
                                         EXCEPT !.writeFailAt =
                                             IF r.err # None THEN insertFailAt ELSE 0]
    /\ nextUid' <= MaxUid + 1
    /\ ipc' = "done"
    /\ UNCHANGED <<variant, users, varsSend, varsParse, txs>>

\* The callback has returned to the SMTP library, which serves the next command.
Listen ==
    /\ ipc = "done"
    /\ ipc' = "idle"
    /\ last' = NoCall
    /\ UNCHANGED <<variant, users, store, nextUid, varsSend, varsParse, txs>>

IntakeNext ==
    \/ EmailExistsChecker
    \/ EmailExistsCheckerDB
    \/ ValidateUserCall
    \/ ValidateRecipientCall
    \/ HandleMessage
    \/ ReceiveEmailCall
    \/ SendEmailSave
    \/ SendEmailExec
    \/ HandleMessageDB
    \/ Listen

IntakeSpec == IntakeInit /\ [][IntakeNext]_vars


(***************************************************************************)
(* Properties of the inbound intake.                                       *)
(***************************************************************************)
\* The text of an address before its first '@'.
LocalPart(r) == SubSeq(r, 1, Min({i \in 1..Len(r) : r[i] = At}) - 1)

\* The recipient exists in the directory.
InDirectory(r) == ContainsAt(r) /\ LocalPart(r) \in users

\* The recipients of the records the last callback added to the mail table.
StoredByLast ==
    [i \in 1..(Len(store) - last.before) |-> store[last.before + i].recipient]

\* C3: for an envelope with at least one recipient that exists and at least
\* one that does not, and no failure of the directory or the storage, Accept
\* does not fail the transaction and stores exactly one record for each
\* existing recipient and none for the others.
C3_PartialAccept ==
    (/\ ipc = "done"
     /\ last.op = "HandleMessage"
     /\ last.outcome = "ok"
     /\ \E i \in 1..Len(last.rcptTo) : InDirectory(last.rcptTo[i])
     /\ \E i \in 1..Len(last.rcptTo) : ~InDirectory(last.rcptTo[i]))
        => /\ last.err = None
           /\ StoredByLast = SelectSeq(last.rcptTo, InDirectory)

\* C9: every validator entry point keeps "does not exist" and "could not
\* check" apart: (false, no error) when the directory answers that the name
\* does not exist, an error when the call of the directory itself fails.
C9_Distinguishable ==
    (ipc = "done" /\ last.op \in {"ValidateUser", "EmailExistsChecker", "ValidateRecipient"})
        => /\ (last.outcome = "ok" /\ last.queried[1] \notin users)
                  => (~last.exists /\ last.err = None)
           /\ last.outcome # "ok" => last.err # None

\* C10: an address without '@' is never deliverable: the hook answers false
\* for it, HandleMessage rejects it, and the directory is never asked about
\* the whole string as a username.
C10_NoAtNeverDeliverable ==
    (ipc = "done" /\ last.op \in {"EmailExistsChecker", "HandleMessage"})
        => \A i \in 1..Len(last.rcptTo) :
               ~ContainsAt(last.rcptTo[i])
                   => /\ last.rcptTo[i] \notin Range(last.queried)
                      /\ last.op = "EmailExistsChecker" => ~last.exists
                      /\ last.op = "HandleMessage" => last.err # None

\* C11: intake is fail-closed on lookup errors: when the directory lookup of
\* any recipient of the envelope fails, HandleMessage returns an error, makes
\* no storage call, and the mail table holds no record of the transaction,
\* also not for the recipients validated before the failing one.
C11_FailClosed ==
    (ipc = "done" /\ last.op = "HandleMessage" /\ last.lookupFailed)
        => /\ last.err # None
           /\ ~last.storeCalled
           /\ Len(store) = last.before

\* C11 witness: in the backend API variant, the lookup of the second
\* recipient failed after the first recipient had been validated.
C11_Witness ==
    /\ ipc = "done"
    /\ variant = "api"
    /\ last.err = "validateFailed"
    /\ last.op = "HandleMessage"
    /\ last.lookupFailed
    /\ Len(last.queried) = 2
    /\ last.queried[1] \in users
    /\ last.err # None

\* C12: Accept never reports success for a transaction that stored no record:
\* when no recipient of the envelope validates, or the envelope has no
\* recipient, HandleMessage returns an error and the mail table is unchanged.
C12_NoValidRecipients ==
    (ipc = "done" /\ last.op = "HandleMessage" /\ Len(store) = last.before)
        => last.err # None

\* C13: no two records of the mail table share a uid, in particular not two
\* records stored for different recipients of one message.
C13_UniqueUid ==
    \A i, j \in 1..Len(store) : i # j => store[i].uid # store[j].uid

\* C13 witness: one transaction has stored a record for each of two
\* recipients, after an earlier transaction had stored one.
C13_Witness ==
    /\ ipc = "done"
    /\ last.op = "HandleMessage"
    /\ last.before = 1
    /\ Len(store) = 3
    /\ store[2].recipient # store[3].recipient


(***************************************************************************)
(* The message parsers: DB.StoreMessage (postsmtp, PostgreSQL variant) and *)
(* MailService.receiveEmail (backend).                                     *)
(***************************************************************************)
\* The normalisation of the line endings both parsers start with.
NormalizeLineEndings(data) == ReplaceAll(ReplaceAll(data, "\r\n", "\n"), "\r", "\n")

\* headers[name] = value
SetHeader(headers, name, value) ==
    [h \in DOMAIN headers \cup {name} |-> IF h = name THEN value ELSE headers[h]]

\* headers[name] where a missing entry reads as empty: the zero value of a Go
\* map, and undefined of JavaScript where it is tested or defaulted with
\* || ''. (Names of members of Object.prototype do not occur in the messages
\* of this model.)
GetHeader(headers, name) == IF name \in DOMAIN headers THEN headers[name] ELSE ""

\* First pass of StoreMessage: the index of the first line that is empty when
\* trimmed, -1 if there is none.
headerEndIndex(lines) ==
    LET e == {i \in 0..(Len(lines) - 1) : TrimSpace(lines[i + 1]) = ""}
    IN  IF e = {} THEN -1 ELSE Min(e)

\* colonIndex < len(line)-1: something follows the colon
ColonNotLast(colonIndex, line) == colonIndex < Len(line) - 1

\* Second pass of StoreMessage, one line of the header block: st holds the
\* map headers and the variable currentHeader.
GoHeaderLine(st, line) ==
    IF TrimSpace(line) = "" THEN st
    ELSE IF HasPrefix(line, " ") \/ HasPrefix(line, "\t")
    THEN IF st.currentHeader # ""
         THEN [st EXCEPT !.headers =
                  SetHeader(st.headers, st.currentHeader,
                            st.headers[st.currentHeader] \o " " \o TrimSpace(line))]
         ELSE st
    ELSE IF Contains(line, ":")
    THEN LET colonIndex == Index(line, ":")
             headerName == TrimSpace(Slice(line, 0, colonIndex))
             headerValue == TrimSpace(SliceFrom(line, colonIndex + 1))
             headerNameLower == ToLower(headerName)
         IN  IF ~(colonIndex > 0 /\ ColonNotLast(colonIndex, line)) THEN st
             ELSE IF headerNameLower = "" THEN st
             ELSE IF Contains(headerNameLower, " ") THEN st
             ELSE IF Len(headerNameLower) > 50 THEN st
             ELSE [headers |->
                       SetHeader(st.headers, headerNameLower,
                                 IF headerNameLower \in DOMAIN st.headers
                                 THEN st.headers[headerNameLower] \o ", " \o headerValue
                                 ELSE headerValue),
                   currentHeader |-> headerNameLower,
                   body |-> st.body]
    ELSE st

\* Second pass of StoreMessage from line i on (i counts from 0).
RECURSIVE GoSecondPass(_, _, _, _)
GoSecondPass(lines, hei, i, st) ==
    IF i >= Len(lines) THEN st
    ELSE LET line == TrimRightCR(lines[i + 1])
         IN  IF i <= hei
             THEN IF i = hei THEN GoSecondPass(lines, hei, i + 1, st)
                  ELSE GoSecondPass(lines, hei, i + 1, GoHeaderLine(st, line))
             ELSE GoSecondPass(lines, hei, i + 1,
                      [st EXCEPT !.body =
                          @ \o line \o (IF i < Len(lines) - 1 THEN "\n" ELSE "")])

\* DB.StoreMessage up to bodyStr := body.String(): headers and body.
StoreMessageScan(data) ==
    LET emailStr == NormalizeLineEndings(data)
        lines == StringsSplit(emailStr, "\n")
        st == GoSecondPass(lines, headerEndIndex(lines), 0,
                           [headers |-> <<>>, currentHeader |-> "", body |-> ""])
    IN  [headers |-> st.headers, body |-> st.body]

\* The loop of MailService.receiveEmail, one line: st holds headers,
\* currentHeader, body and inBody.
TsLine(st, line) ==
    LET trimmedLine == TrimSpace(line)
    IN  IF st.inBody THEN [st EXCEPT !.body = @ \o line \o "\n"]
        ELSE IF trimmedLine = "" THEN [st EXCEPT !.inBody = TRUE]
        ELSE IF HasPrefix(line, " ") \/ HasPrefix(line, "\t")
        THEN IF st.currentHeader # ""
             THEN [st EXCEPT !.headers =
                      SetHeader(st.headers, st.currentHeader,
                                GetHeader(st.headers, st.currentHeader)
                                    \o " " \o trimmedLine)]
             ELSE st
        ELSE IF Contains(line, ":")
        THEN LET colonIndex == Index(line, ":")
                 name == toLowerCase(TrimSpace(Slice(line, 0, colonIndex)))
                 headerValue == TrimSpace(SliceFrom(line, colonIndex + 1))
             IN  IF colonIndex > 0
                 THEN [st EXCEPT
                          !.currentHeader = name,
                          !.headers =
                              SetHeader(st.headers, name,
                                        IF GetHeader(st.headers, name) # ""
                                        THEN st.headers[name] \o ", " \o headerValue
                                        ELSE headerValue)]
                 ELSE st
        ELSE st

RECURSIVE TsLoop(_, _, _)
TsLoop(lines, k, st) ==
    IF k > Len(lines) THEN st ELSE TsLoop(lines, k + 1, TsLine(st, lines[k]))

\* MailService.receiveEmail from the normalisation to body.trimEnd().
receiveEmailParse(emailData) ==
    LET lines == StringsSplit(NormalizeLineEndings(emailData), "\n")
        st == TsLoop(lines, 1, [headers |-> <<>>, currentHeader |-> "",
                                body |-> "", inBody |-> FALSE])
    IN  [headers |-> st.headers, body |-> trimEnd(st.body), boundary |-> "",
         panic |-> FALSE]

(***************************************************************************)
(* DB.StoreMessage: the multipart step.                                    *)
(***************************************************************************)
\* The whole value is searched for the boundary.
WholeContentType(contentType) == contentType

\* firstContentType: the value up to its first comma, trimmed.
firstContentType(contentType) ==
    LET commaIndex == Index(contentType, ",")
    IN  IF commaIndex # -1 THEN TrimSpace(Slice(contentType, 0, commaIndex))
        ELSE contentType

\* The branch for the escaped quote left out.
NoEscapedQuoteBranch(boundaryStr) == FALSE

\* strings.HasPrefix(boundaryStr, "\\\"")
HasEscapedQuote(boundaryStr) == HasPrefix(boundaryStr, "\\\"")

\* The three branches on the text after "boundary=": escaped quote, quote, bare.
Unquote(boundaryStr) ==
    IF HasEscapedQuote(boundaryStr)
    THEN LET rest == SliceFrom(boundaryStr, 2)
             endQuote == IF Index(rest, "\\\"") # -1 THEN Index(rest, "\\\"")
                         ELSE Index(rest, "\"")
         IN  IF endQuote # -1 THEN Slice(rest, 0, endQuote) ELSE rest
    ELSE IF HasPrefix(boundaryStr, "\"")
    THEN LET endQuote == Index(SliceFrom(boundaryStr, 1), "\"")
         IN  IF endQuote # -1 THEN Slice(boundaryStr, 1, endQuote + 1) ELSE boundaryStr
    ELSE LET stops == {Index(boundaryStr, char) :
                          char \in {";", ",", " ", "\t", "\n", "\r"}} \ {-1}
             endIndex == Min(stops \cup {Len(boundaryStr)})
         IN  Slice(boundaryStr, 0, endIndex)

\* firstContentType[boundaryStart+9:] is in range.
SliceInRange(low, s) == low <= Len(s)

\* The boundary StoreMessage extracts from the content-type value: found is
\* false when the first segment has no "boundary="; panic is true when the
\* index found in the lowered text is out of range in the text itself.
ExtractBoundary(contentType) ==
    LET first == firstContentType(contentType)
        boundaryStart == Index(ToLower(first), "boundary=")
        boundaryStr == TrimSpace(SliceFrom(first, boundaryStart + 9))
        boundary == ReplaceAll(ReplaceAll(TrimQuotes(TrimSpace(Unquote(boundaryStr))),
                                          "\\\"", "\""),
                               "\\\\", "\\")
    IN  IF boundaryStart = -1
        THEN [found |-> FALSE, boundary |-> "", panic |-> FALSE]
        ELSE IF ~SliceInRange(boundaryStart + 9, first)
        THEN [found |-> TRUE, boundary |-> "", panic |-> TRUE]
        ELSE [found |-> TRUE, boundary |-> boundary, panic |-> FALSE]

\* boundaryFormats, in the order they are tried.
boundaryFormats(boundary) ==
    <<"\r\n--" \o boundary \o "\r\n",
      "\n--" \o boundary \o "\n",
      "--" \o boundary \o "\r\n",
      "--" \o boundary \o "\n",
      "\r\n--" \o boundary \o "\n",
      "\n--" \o boundary \o "\r\n">>

\* The marker the body is split on; "" when the boundary is not in the body.
boundaryMarker(body, boundary) ==
    LET fs == boundaryFormats(boundary)
        hit == {i \in 1..Len(fs) : Contains(body, fs[i])}
    IN  IF hit # {} THEN fs[Min(hit)]
        ELSE IF Contains(body, "--" \o boundary) THEN "--" \o boundary
        ELSE ""

\* The loop over the lines of one part, from line i on (i counts from 0).
RECURSIVE PartLines(_, _, _)
PartLines(partLines, i, st) ==
    IF i >= Len(partLines) THEN st
    ELSE LET line == partLines[i + 1]
             colonIndex == Index(line, ":")
             headerName == ToLower(TrimSpace(Slice(line, 0, colonIndex)))
             headerValue == TrimSpace(SliceFrom(line, colonIndex + 1))
         IN  IF st.inPartHeaders
             THEN IF TrimSpace(line) = ""
                  THEN PartLines(partLines, i + 1, [st EXCEPT !.inPartHeaders = FALSE])
                  ELSE IF Contains(line, ":") /\ colonIndex > 0
                          /\ headerName = "content-type"
                          /\ Contains(ToLower(headerValue), "text/plain")
                  THEN PartLines(partLines, i + 1, [st EXCEPT !.isPlainText = TRUE])
                  ELSE PartLines(partLines, i + 1, st)
             ELSE PartLines(partLines, i + 1,
                      [st EXCEPT !.partContent =
                          @ \o line \o (IF i < Len(partLines) - 1 THEN "\n" ELSE "")])

\* The trimming of the content of the text/plain part.
TrimPlainText(partContent, boundary) ==
    LET t1 == TrimSpace(TrimSuffix(TrimSpace(partContent), "--"))
        t2 == TrimSpace(TrimSuffix(t1, boundary))
        t3 == TrimSuffix(t2, "\r\n--" \o boundary)
        t4 == TrimSuffix(t3, "\n--" \o boundary)
        t5 == TrimSuffix(t4, "--" \o boundary)
    IN  TrimSpace(t5)

\* The loop over the parts, from part k on: the text returned.
RECURSIVE PartsLoop(_, _, _, _)
PartsLoop(parts, k, body, boundary) ==
    IF k > Len(parts) THEN body
    ELSE LET trimmedPart == TrimSpace(parts[k])
             st == PartLines(StringsSplit(parts[k], "\n"), 0,
                             [inPartHeaders |-> TRUE, isPlainText |-> FALSE,
                              partContent |-> ""])
         IN  IF trimmedPart = "" \/ trimmedPart = "--"
             THEN PartsLoop(parts, k + 1, body, boundary)
             ELSE IF st.isPlainText /\ Len(st.partContent) > 0
             THEN TrimPlainText(st.partContent, boundary)
             ELSE PartsLoop(parts, k + 1, body, boundary)

extractPlainTextFromMultipart(body, boundary) ==
    LET marker == boundaryMarker(body, boundary)
        parts == StringsSplit(body, marker)
        altParts == StringsSplit(body, "--" \o boundary)
    IN  IF boundary = "" THEN body
        ELSE IF marker = "" THEN body
        ELSE PartsLoop(IF Len(parts) = 1 /\ Len(altParts) > 1 THEN altParts ELSE parts,
                       1, body, boundary)

\* DB.StoreMessage up to the marshalling of the headers: the headers, the
\* body that will be stored, and the boundary it extracted ("" if none);
\* panic when the call ends in a run-time panic and returns nothing.
StoreMessageParse(data) ==
    LET scan == StoreMessageScan(data)
        contentType == GetHeader(scan.headers, "content-type")
        b == ExtractBoundary(contentType)
        plainTextBody == extractPlainTextFromMultipart(scan.body, b.boundary)
    IN  IF contentType # "" /\ Contains(ToLower(contentType), "multipart") /\ b.found
        THEN IF b.panic
             THEN [headers |-> <<>>, body |-> "", boundary |-> "", panic |-> TRUE]
             ELSE [headers |-> scan.headers,
                   body |-> IF plainTextBody # "" /\ plainTextBody # scan.body
                            THEN plainTextBody ELSE scan.body,
                   boundary |-> b.boundary, panic |-> FALSE]
        ELSE [headers |-> scan.headers, body |-> scan.body, boundary |-> "",
              panic |-> FALSE]

(***************************************************************************)
(* extractFromMultipart of the mail client: the text it displays for a     *)
(* stored message and the content-type header stored with it.              *)
(***************************************************************************)
\* s.indexOf(sub, from)
IndexFrom(s, sub, from) ==
    LET r == Index(SliceFrom(s, Min({from, Len(s)})), sub)
    IN  IF r = -1 THEN -1 ELSE r + Min({from, Len(s)})

\* s.substring(a, b): the arguments are clamped and swapped if a > b.
substring(s, a, b) ==
    LET ca == Max({0, Min({a, Len(s)})})
        cb == Max({0, Min({b, Len(s)})})
    IN  Slice(s, Min({ca, cb}), Max({ca, cb}))

\* lines.join('\n')
RECURSIVE Join(_, _)
Join(ss, sep) ==
    IF ss = <<>> THEN ""
    ELSE IF Len(ss) = 1 THEN ss[1]
    ELSE ss[1] \o sep \o Join(Tail(ss), sep)

\* The boundary the client takes from the content type; found is false
\* when the first segment has no "boundary=".
WebBoundary(contentType) ==
    LET first == IF Contains(contentType, ",")
                 THEN TrimSpace(StringsSplit(contentType, ",")[1])
                 ELSE contentType
        boundaryStart == Index(toLowerCase(first), "boundary=")
        boundaryStr == TrimSpace(SliceFrom(first, boundaryStart + 9))
        startQuote == IF HasPrefix(boundaryStr, "\\\"") THEN 2 ELSE 1
        endQuote == IndexFrom(boundaryStr, "\"", startQuote)
        stopsQ == {Index(boundaryStr, c) : c \in {",", ";"}} \ {-1}
        stopsU == {Index(boundaryStr, c) : c \in {",", ";", " "}} \ {-1}
        cut == IF HasPrefix(boundaryStr, "\\\"") \/ HasPrefix(boundaryStr, "\"")
               THEN IF endQuote # -1 THEN substring(boundaryStr, startQuote, endQuote)
                    ELSE TrimSpace(substring(boundaryStr, startQuote,
                                             Min(stopsQ \cup {Len(boundaryStr)})))
               ELSE TrimSpace(substring(boundaryStr, 0,
                                        Min(stopsU \cup {Len(boundaryStr)})))
    IN  IF boundaryStart = -1 THEN [found |-> FALSE, boundary |-> ""]
        ELSE [found |-> TRUE,
              boundary |-> ReplaceAll(ReplaceAll(cut, "\\\"", "\""), "\\\\", "\\")]

\* boundaryMarkers, in the order they are tried.
boundaryMarkers(boundary) ==
    <<"\r\n--" \o boundary \o "\r\n",
      "\n--" \o boundary \o "\n",
      "--" \o boundary \o "\r\n",
      "--" \o boundary \o "\n",
      "--" \o boundary>>

\* The loop over the lines of one part, from line j on (j counts from 0).
RECURSIVE WebPartLines(_, _, _)
WebPartLines(lines, j, st) ==
    IF j >= Len(lines) THEN st
    ELSE LET line == TrimSpace(lines[j + 1])
         IN  IF ~st.inHeaders THEN WebPartLines(lines, j + 1, st)
             ELSE IF line = ""
             THEN WebPartLines(lines, j + 1,
                      [st EXCEPT !.inHeaders = FALSE, !.contentStartIndex = j + 1])
             ELSE IF HasPrefix(toLowerCase(line), "content-type:")
             THEN WebPartLines(lines, j + 1,
                      [st EXCEPT !.partContentType =
                          toLowerCase(TrimSpace(SliceFrom(line, Index(line, ":") + 1)))])
             ELSE WebPartLines(lines, j + 1, st)

\* content.replace(/\r?\n--$/, '').replace(/--$/, '').trim()
cleanContent(content) ==
    LET c1 == IF HasSuffix(content, "\r\n--") THEN TrimSuffix(content, "\r\n--")
              ELSE TrimSuffix(content, "\n--")
    IN  TrimSpace(TrimSuffix(c1, "--"))

\* The loop over the parts, from part k on: every text/plain part assigns
\* plainText, every text/html part assigns htmlText.
RECURSIVE WebPartsLoop(_, _, _)
WebPartsLoop(parts, k, found) ==
    IF k > Len(parts) THEN found
    ELSE LET part == TrimSpace(parts[k])
             lines == StringsSplit(ReplaceAll(part, "\r\n", "\n"), "\n")
             st == WebPartLines(lines, 0,
                       [inHeaders |-> TRUE, partContentType |-> "",
                        contentStartIndex |-> -1])
             content == TrimSpace(Join(SubSeq(lines, st.contentStartIndex + 1,
                                              Len(lines)), "\n"))
         IN  IF part = "" \/ part = "--" THEN WebPartsLoop(parts, k + 1, found)
             ELSE IF ~(st.contentStartIndex > 0 /\ st.contentStartIndex < Len(lines))
             THEN WebPartsLoop(parts, k + 1, found)
             ELSE IF Contains(st.partContentType, "text/plain")
             THEN WebPartsLoop(parts, k + 1,
                      [found EXCEPT !.plainText = cleanContent(content)])
             ELSE IF Contains(st.partContentType, "text/html")
             THEN WebPartsLoop(parts, k + 1,
                      [found EXCEPT !.htmlText = cleanContent(content)])
             ELSE WebPartsLoop(parts, k + 1, found)

extractFromMultipart(message, contentType) ==
    LET b == WebBoundary(contentType)
        ms == boundaryMarkers(b.boundary)
        hit == {i \in 1..Len(ms) : Contains(message, ms[i])}
        found == WebPartsLoop(StringsSplit(message, ms[Min(hit)]), 1,
                              [plainText |-> "", htmlText |-> ""])
    IN  IF message = "" \/ contentType = "" THEN message
        ELSE IF ~Contains(toLowerCase(contentType), "multipart") THEN message
        ELSE IF ~b.found \/ b.boundary = "" THEN message
        ELSE IF hit = {} THEN message
        ELSE IF found.htmlText # "" THEN found.htmlText
        ELSE IF found.plainText # "" THEN found.plainText
        ELSE message

(***************************************************************************)
(* The messages handed to the parsers. A message is kept as it was         *)
(* written: the lines of its header block, each with what its writer meant *)
(* by it; its body, with "\n" for a line break; the line ending it is sent *)
(* with; for a multipart message, how Content-Type declares the boundary;  *)
(* and whether the header block is followed by the empty line (sep): a     *)
(* message without it ends with its last header line, unterminated.        *)
(***************************************************************************)
HLine(text, kind, name, value) ==
    [text |-> text, kind |-> kind, name |-> name, value |-> value]

FromA == HLine("From: a", "header", "from", "a")
ToT == HLine("To: t", "header", "to", "t")

BlockLines ==
    {FromA, ToT,
     HLine("From: b", "header", "from", "b"),
     HLine("Subject:", "empty", "subject", ""),
     HLine("nocolon", "malformed", "", ""),
     HLine(": v", "malformed", "", "v"),
     HLine(" x", "cont", "", "x"),
     HLine("\t y ", "cont", "", "y")}

\* A header name of 51 characters.
LongName == "x-long-aaaaaaaaaaaaaaaaaaaaaaaaaaaaaaaaaaaaaaaaaaaa"

\* Header lines by the form of their name and value: a name with a space, a
\* name that is too long, a value with colons, no value (with and without a
\* space after the colon), a name in mixed case.
NameForms ==
    {FromA,
     HLine("Bad Name: v", "malformed", "", "v"),
     HLine(LongName \o ": v", "malformed", "", "v"),
     HLine("Date: 1:2", "header", "date", "1:2"),
     HLine("Subject:", "empty", "subject", ""),
     HLine("Cc: ", "empty", "cc", ""),
     HLine("X-Mixed-Case: V", "header", "x-mixed-case", "V")}

Bodies == {"", "hi", "one\ntwo\n", "hi\n\n", "sig\n-- \n", "Subject: s\n\nTo: z\n"}
LineEndings == {"\r\n", "\n"}

Boundaries == {"X1", "=_Part.2", "--b3"}
Forms == {"quoted", "escaped", "bare"}
Tails == {"", "; charset=utf-8"}

\* A multipart body with a text/plain and a text/html part.
MultipartBody(boundary) ==
    "--" \o boundary \o "\nContent-Type: text/plain\n\nhello\n"
    \o "--" \o boundary \o "\nContent-Type: text/html\n\n<p>hello</p>\n"
    \o "--" \o boundary \o "--\n"

\* The boundary the first segment of the content type declares, as written.
Declared(mime) == IF mime.form = "absent" THEN "" ELSE mime.X

Mimes ==
    [form : Forms, X : Boundaries, tail : Tails, later : {"none", "comma", "repeat"}]
    \cup [form : {"absent"}, X : {"Y"}, tail : Tails, later : {"comma", "repeat"}]

\* A multipart body with a text/html part only.
HtmlOnlyBody(boundary) ==
    "--" \o boundary \o "\nContent-Type: text/html\n\n<p>hello</p>\n"
    \o "--" \o boundary \o "--\n"

\* A multipart body with two text/plain parts, and one with a text/html
\* part before them.
TwoPlainBody(boundary) ==
    "--" \o boundary \o "\nContent-Type: text/plain\n\nfirst\n"
    \o "--" \o boundary \o "\nContent-Type: text/plain; charset=utf-8\n\nsecond\n"
    \o "--" \o boundary \o "--\n"

HtmlTwoPlainBody(boundary) ==
    "--" \o boundary \o "\nContent-Type: text/html\n\n<p>first</p>\n"
    \o TwoPlainBody(boundary)

\* A Content-Type line written out in full.
CtLine(value) == HLine("Content-Type: " \o value, "ctype", "content-type", value)

\* Multipart messages no text/plain part can be taken from: no boundary
\* parameter, an empty boundary, a boundary that is not in the body, and a
\* body without a text/plain part.
NoPlainTextInputs ==
    {[lines |-> <<FromA, CtLine(c[1])>>, body |-> c[2], eol |-> eol, mime |-> NoMime, sep |-> TRUE] :
        c \in {<<"multipart/mixed", MultipartBody("X1")>>,
               <<"multipart/mixed; boundary=\"\"", MultipartBody("X1")>>,
               <<"multipart/mixed; boundary=", MultipartBody("X1")>>,
               <<"multipart/mixed; boundary=\"Z9\"", MultipartBody("X1")>>,
               <<"Multipart/Mixed; boundary=Z9; charset=utf-8", "hi\n">>,
               <<"multipart/mixed; boundary=\"X1\"", HtmlOnlyBody("X1")>>,
               <<"multipart/mixed; boundary=X1", HtmlOnlyBody("X1")>>},
        eol \in LineEndings}

\* Multipart messages with several text/plain parts; the content of the
\* first of them is "first".
SeveralPlainInputs ==
    {[lines |-> <<FromA, CtLine("multipart/mixed; boundary=\"" \o X \o "\"")>>,
      body |-> b, eol |-> eol, mime |-> NoMime, sep |-> TRUE] :
        X \in {"X1"}, b \in {TwoPlainBody("X1"), HtmlTwoPlainBody("X1")},
        eol \in LineEndings}

\* Multipart messages with bytes that are not UTF-8 in a parameter of the
\* content type, before or after the boundary.
InvalidByteInputs ==
    {[lines |-> <<FromA, CtLine(c)>>, body |-> MultipartBody("X1"), eol |-> eol,
      mime |-> NoMime, sep |-> TRUE] :
        c \in {"multipart/mixed; boundary=X1; name=" \o InvalidByte \o InvalidByte,
               "multipart/mixed; name=" \o InvalidByte \o InvalidByte \o "; boundary=X1",
               "multipart/mixed; name=caf" \o InvalidByte \o "; boundary=\"X1\""},
        eol \in LineEndings}

ParseInputs ==
    [lines : SeqsUpTo(BlockLines, MaxHeaderLines), body : {"hi\n"},
     eol : LineEndings, mime : {NoMime}, sep : {TRUE}]
    \cup [lines : SeqsUpTo({FromA, ToT}, 2), body : Bodies,
          eol : LineEndings, mime : {NoMime}, sep : {TRUE}]
    \cup [lines : SeqsUpTo(NameForms, 2), body : {"hi\n"},
          eol : LineEndings, mime : {NoMime}, sep : {TRUE}]
    \cup NoPlainTextInputs
    \cup SeveralPlainInputs
    \cup InvalidByteInputs
    \cup {[lines |-> <<FromA>>, body |-> MultipartBody(mime.X), eol |-> eol,
           mime |-> mime, sep |-> TRUE] : mime \in Mimes, eol \in LineEndings}
    \cup [lines : SeqsUpTo({FromA, ToT}, 2) \ {<<>>}, body : {""},
          eol : LineEndings, mime : {NoMime}, sep : {FALSE}]

\* boundary="X", boundary=\"X\" or boundary=X
Declaration(mime) ==
    IF mime.form = "absent" THEN ""
    ELSE "; boundary=" \o
         (IF mime.form = "quoted" THEN "\"" \o mime.X \o "\""
          ELSE IF mime.form = "escaped" THEN "\\\"" \o mime.X \o "\\\""
          ELSE mime.X)

\* The Content-Type lines of a multipart message: a second content type
\* follows the first after a comma, or in a header line of its own.
ContentTypeLines(mime, eol) ==
    IF mime.form = "none" THEN ""
    ELSE "Content-Type: multipart/alternative" \o Declaration(mime) \o mime.tail
         \o (IF mime.later = "comma" THEN ", text/plain; boundary=Y" \o eol
             ELSE IF mime.later = "repeat"
             THEN eol \o "Content-Type: text/plain; boundary=Y" \o eol
             ELSE eol)

RECURSIVE HeaderText(_, _)
HeaderText(lines, eol) ==
    IF lines = <<>> THEN ""
    ELSE Head(lines).text \o eol \o HeaderText(Tail(lines), eol)

\* The bytes of the message: header lines, the empty line, the body.
Render(m) ==
    IF m.sep
    THEN HeaderText(m.lines, m.eol) \o ContentTypeLines(m.mime, m.eol) \o m.eol
         \o ReplaceAll(m.body, "\n", m.eol)
    ELSE TrimSuffix(HeaderText(m.lines, m.eol), m.eol)

ParseInit ==
    /\ IntakeIdle
    /\ variant = "db"
    /\ jsonMail = [from |-> <<>>, to |-> <<>>, cc |-> <<>>, bcc |-> <<>>]
    /\ dns = [d \in SendDomains |-> LookupError]
    /\ pc = "off"
    /\ recipientsByDomain = <<>>
    /\ visited = {}
    /\ netOps = 0
    /\ outcomes = <<>>
    /\ NoLocals
    /\ msg \in ParseInputs
    /\ raw = Render(msg)
    /\ parser = "none"
    /\ parsed = NoParsed

\* DB.StoreMessage parses the data of the transaction.
ParseStoreMessage ==
    /\ parser = "none"
    /\ parser' = "go"
    /\ parsed' = StoreMessageParse(raw)
    /\ UNCHANGED <<msg, raw, varsSend, varsIntake, txs>>

\* MailService.receiveEmail parses the data of the request.
ParseReceiveEmail ==
    /\ parser = "none"
    /\ parser' = "ts"
    /\ parsed' = receiveEmailParse(raw)
    /\ UNCHANGED <<msg, raw, varsSend, varsIntake, txs>>

\* The mail client displays the message receiveEmail has stored:
\* getEmailDisplayText calls extractFromMultipart with the stored body and
\* the stored content-type header.
ParseExtractFromMultipart ==
    /\ parser = "ts"
    /\ parser' = "web"
    /\ parsed' = [parsed EXCEPT !.body =
                     extractFromMultipart(parsed.body,
                                          GetHeader(parsed.headers, "content-type"))]
    /\ UNCHANGED <<msg, raw, varsSend, varsIntake, txs>>

ParseNext ==
    \/ ParseStoreMessage
    \/ ParseReceiveEmail
    \/ ParseExtractFromMultipart

ParseSpec == ParseInit /\ [][ParseNext]_vars


(***************************************************************************)
(* Properties of the parsers.                                              *)
(***************************************************************************)
ParseWith(p, data) == IF p = "go" THEN StoreMessageParse(data) ELSE receiveEmailParse(data)

\* A well-formed single-part message: every line of the header block is a
\* header line "Name: value", no name occurs twice, no multipart.
WellFormedSinglePart(m) ==
    /\ m.mime.form = "none"
    /\ m.lines # <<>>
    /\ \A i \in 1..Len(m.lines) : m.lines[i].kind = "header"
    /\ \A i, j \in 1..Len(m.lines) : i # j => m.lines[i].name # m.lines[j].name

\* The headers of a well-formed message as written: name -> value.
Written(m) ==
    [n \in {m.lines[i].name : i \in 1..Len(m.lines)} |->
        (CHOOSE l \in Range(m.lines) : l.name = n).value]

\* The same message written with the other line ending.
OtherEol(m) == [m EXCEPT !.eol = IF @ = "\n" THEN "\r\n" ELSE "\n"]

\* A text without the line break that ends its last line, if there is one.
StripFinalEOL(b) == IF HasSuffix(b, "\n") THEN Slice(b, 0, Len(b) - 1) ELSE b

\* C17: parsing is independent of the line ending: for a well-formed
\* single-part message the result is the one the parser gives for the same
\* message written with the other line ending, its headers are the headers
\* as written, and its body is the body as written (compared up to the line
\* break that ends the last line).
C17_LineEndingIndependent ==
    (parser # "none" /\ WellFormedSinglePart(msg))
        => /\ parsed = ParseWith(parser, Render(OtherEol(msg)))
           /\ parsed.headers = Written(msg)
           /\ StripFinalEOL(parsed.body) = StripFinalEOL(msg.body)

\* The header block read as its writer meant it: a continuation line belongs
\* to the header line immediately before it (and its continuations), and to
\* a header of the result only if that line started one. st holds the
\* headers and owner, the name the preceding header line started ("" if it
\* started none).
RECURSIVE Unfolded(_, _)
Unfolded(lines, st) ==
    IF lines = <<>> THEN st.headers
    ELSE LET l == Head(lines)
         IN  IF l.kind = "header"
             THEN Unfolded(Tail(lines),
                      [headers |-> SetHeader(st.headers, l.name,
                                       IF l.name \in DOMAIN st.headers
                                       THEN st.headers[l.name] \o ", " \o l.value
                                       ELSE l.value),
                       owner |-> l.name])
             ELSE IF l.kind = "cont"
             THEN Unfolded(Tail(lines),
                      IF st.owner # ""
                      THEN [st EXCEPT !.headers =
                               SetHeader(st.headers, st.owner,
                                         st.headers[st.owner] \o " " \o l.value)]
                      ELSE st)
             ELSE Unfolded(Tail(lines), [st EXCEPT !.owner = ""])

\* C18: a line of the header block that starts with a space or a tab is
\* appended, trimmed and after one space, to the value of the header started
\* by the header line immediately before it, and to no other header: the
\* values of from and to are made of their own lines and continuations only,
\* also when the line before a continuation is a repeated name, a malformed
\* line or a header line with an empty value.
C18_ContinuationToPrecedingHeader ==
    (parser # "none" /\ msg.mime.form = "none")
        => \A n \in {"from", "to"} :
               GetHeader(parsed.headers, n)
                   = GetHeader(Unfolded(msg.lines, [headers |-> <<>>, owner |-> ""]), n)

\* The message with the boundary declared in form f.
InForm(m, f) == [m EXCEPT !.mime.form = f]

\* C19: a multipart message with boundary X gives the same body whether the
\* boundary is declared quoted, escaped-quoted or bare, and the boundary
\* extracted from each of the three forms is X.
C19_BoundaryQuoting ==
    (parser = "go" /\ msg.mime.form \in Forms)
        => /\ parsed.boundary = msg.mime.X
           /\ \A f \in Forms :
                  LET other == StoreMessageParse(Render(InForm(msg, f)))
                  IN  other.boundary = msg.mime.X /\ other.body = parsed.body

\* C19 witness: the boundary is declared escaped-quoted, and the body stored
\* is the content of the text/plain part.
C19_Witness ==
    /\ parser = "go"
    /\ msg.mime.form = "escaped"
    /\ msg.mime.later = "none"
    /\ parsed.boundary = msg.mime.X
    /\ parsed.body = "hello"

\* C20: when the merged content-type value has several comma-joined values,
\* the boundary is looked for in the segment before the first comma only: it
\* is the boundary that segment declares and splits the body, and when that
\* segment declares none, the boundary of a later segment is not used and the
\* body is kept.
C20_FirstSegmentOnly ==
    (parser = "go" /\ msg.mime.form # "none" /\ msg.mime.later # "none")
        => /\ parsed.boundary = Declared(msg.mime)
           /\ msg.mime.form = "absent" => parsed.body = msg.body
           /\ msg.mime.form # "absent" => parsed.body = "hello"

\* C20 witness: Content-Type is repeated, the first one declares X and the
\* second one Y; X has been used.
C20_Witness ==
    /\ parser = "go"
    /\ msg.mime.later = "repeat"
    /\ msg.mime.form = "quoted"
    /\ parsed.boundary = msg.mime.X
    /\ parsed.body = "hello"

\* C21: the multipart step never fails the parse: DB.StoreMessage returns a
\* result for every message, and when no text/plain part can be taken (no
\* boundary parameter, an empty boundary, a boundary that is not in the body,
\* no text/plain part) the body is the body as written.
C21_MultipartNoFail ==
    parser = "go" =>
        /\ ~parsed.panic
        /\ msg \in NoPlainTextInputs => parsed.body = msg.body

\* C27: MailService.receiveEmail validates every recipient before it writes:
\* a call saves records only if every address of rcptTo contains '@' and has
\* the username of an existing user before it, and if one recipient fails
\* the call throws and the mail table is as it was.
C27_ValidateBeforeWrite ==
    last.op = "receiveEmail" =>
        /\ Len(store) > last.before =>
               \A k \in 1..Len(last.rcptTo) : InDirectory(last.rcptTo[k])
        /\ (\E k \in 1..Len(last.rcptTo) : ~InDirectory(last.rcptTo[k])) =>
               /\ last.err # None
               /\ Len(store) = last.before

\* C27 witness: the first recipient is a user, the second is not; the call
\* threw and the table, which had records, was not written.
C27_Witness ==
    /\ last.op = "receiveEmail"
    /\ last.rcptTo = <<AliceX, CarolX>>
    /\ last.err = "badRequest"
    /\ last.before > 0
    /\ Len(store) = last.before

\* The recipients a call writes for before its k-th recipient: all of them
\* in receiveEmail, those with an '@' in DB.StoreMessage.
WrittenBefore(k) ==
    IF variant = "api" THEN SubSeq(last.rcptTo, 1, k - 1)
    ELSE SelectSeq(SubSeq(last.rcptTo, 1, k - 1), ContainsAt)

\* C29: the storage of a message is not rolled back: when the write for the
\* k-th recipient fails the call returns an error, nothing is written for
\* the recipients after the k-th, and the records of those before it stay:
\* the records the call has added are an order-preserving prefix.
C29_PrefixOnWriteFailure ==
    last.writeFailAt > 0 =>
        /\ last.err # None
        /\ Len(store) - last.before = Len(WrittenBefore(last.writeFailAt))
        /\ \A i \in 1..Len(WrittenBefore(last.writeFailAt)) :
               store[last.before + i].recipient = WrittenBefore(last.writeFailAt)[i]

\* C29 witness: the write for the second of two recipients failed and the
\* record of the first is in the table.
C29_Witness ==
    /\ last.writeFailAt = 2
    /\ last.rcptTo = <<AliceX, BobX>>
    /\ last.err # None
    /\ Len(store) = last.before + 1
    /\ store[Len(store)].recipient = AliceX

\* A message without multipart content: no Content-Type line at all.
NotMultipart(m) ==
    /\ m.mime.form = "none"
    /\ \A i \in 1..Len(m.lines) : m.lines[i].kind # "ctype"

\* C28: the two parsers agree: for every message without multipart content
\* DB.StoreMessage and MailService.receiveEmail give the same headers and
\* the same body.
C28_ParsersAgree ==
    (parser \in {"go", "ts"} /\ NotMultipart(msg)) =>
        /\ parsed.headers = StoreMessageParse(raw).headers
        /\ parsed.headers = receiveEmailParse(raw).headers
        /\ parsed.body = StoreMessageParse(raw).body
        /\ parsed.body = receiveEmailParse(raw).body

\* The record MailService.sendEmail has saved is the last of the mail table.
SavedBySendEmail ==
    /\ Len(store) = last.before + 1
    /\ store[Len(store)].recipient = last.rcptTo[1]

\* C30: MailService.sendEmail persists before it delivers: the record is in
\* the mail table when sendsmtp is started; when sendsmtp fails or is killed
\* at the timeout the call throws and the record stays; and the call returns
\* 'Email sent successfully' only if the process ended without error.
C30_PersistBeforeDeliver ==
    /\ ipc = "sending" => (last.op = "sendEmail" /\ SavedBySendEmail)
    /\ (ipc = "done" /\ last.op = "sendEmail") =>
           /\ last.outcome \in ExecOutcomes => SavedBySendEmail
           /\ last.outcome \in ExecOutcomes \ {"exit0"} => last.err # None
           /\ last.err = None => last.outcome = "exit0"

\* C30 witness: sendsmtp was killed at the timeout: the call threw and the
\* record it had saved is in the table.
C30_Witness ==
    /\ ipc = "done"
    /\ last.op = "sendEmail"
    /\ last.outcome = "timeout"
    /\ last.err = "serverError"
    /\ SavedBySendEmail

(***************************************************************************)
(* Concurrent inbound transactions (PostgreSQL variant): the SMTP library  *)
(* calls handlers.MailHandler for every completed transaction, and the     *)
(* invocations of HandleMessage interleave at their calls of the database. *)
(* The arguments and locals of an invocation are its own; the handler has  *)
(* one field, the database handle, set once in main.                       *)
(***************************************************************************)
Sender1 == <<"s1", At, "z">>
Sender2 == <<"s2", At, "z">>
Data1 == "From: a\n\nhi\n"
Data2 == "From: b\nSubject: s\n\nyo\n"

\* The transactions the library can hand over: mailFrom, rcptTo, data.
Transactions ==
    {[mailFrom |-> Sender1, rcptTo |-> <<AliceX>>, data |-> Data1],
     [mailFrom |-> Sender2, rcptTo |-> <<AliceX, BobX>>, data |-> Data2],
     [mailFrom |-> Sender2, rcptTo |-> <<BobX, Alice>>, data |-> Data1],
     [mailFrom |-> Sender1, rcptTo |-> <<AliceX, CarolX>>, data |-> Data2]}

\* What DB.StoreMessage parses out of each data.
ParsedData == [d \in {t.data : t \in Transactions} |-> StoreMessageParse(d)]

IdleTx ==
    [pc |-> "idle", mailFrom |-> <<>>, rcptTo |-> <<>>, data |-> "",
     headers |-> <<>>, bodyStr |-> "", messageUID |-> 0, k |-> 0,
     insertFailAt |-> 0, err |-> None]

\* Every invocation works on the arguments of the first one.
SharedFrame(t) == 1

\* The arguments and locals invocation t works on: its own.
CallFrame(t) == t

ConcInit ==
    /\ variant = "db"
    /\ users = {<<"alice">>, <<"bob">>}
    /\ store = <<>>
    /\ nextUid = 1
    /\ ipc = "idle"
    /\ last = NoCall
    /\ ParseIdle
    /\ jsonMail = [from |-> <<>>, to |-> <<>>, cc |-> <<>>, bcc |-> <<>>]
    /\ dns = [d \in SendDomains |-> LookupError]
    /\ pc = "off"
    /\ recipientsByDomain = <<>>
    /\ visited = {}
    /\ netOps = 0
    /\ outcomes = <<>>
    /\ NoLocals
    /\ txs = [t \in 1..MaxTx |-> IdleTx]

\* handlers.MailHandler calls HandleMessage: the validation loop (it only
\* reads the users table), then DB.StoreMessage up to messageUID := uuid.New().
\* insertFailAt is the insert of this invocation the database will refuse.
TxBegin(t) ==
    /\ txs[t].pc = "idle"
    /\ \E e \in Transactions : \E f \in 0..Len(e.rcptTo) :
        LET v == ValidateAllDB(e.rcptTo, 1, 0)
            p == ParsedData[e.data]
        IN  IF v.err # None
            THEN /\ txs' = [txs EXCEPT ![t] =
                        [IdleTx EXCEPT !.pc = "done", !.mailFrom = e.mailFrom,
                                       !.rcptTo = e.rcptTo, !.data = e.data,
                                       !.err = v.err]]
                 /\ UNCHANGED nextUid
            ELSE /\ txs' = [txs EXCEPT ![t] =
                        [pc |-> "store", mailFrom |-> e.mailFrom, rcptTo |-> e.rcptTo,
                         data |-> e.data, headers |-> p.headers, bodyStr |-> p.body,
                         messageUID |-> nextUid, k |-> 1, insertFailAt |-> f,
                         err |-> None]]
                 /\ nextUid' = uuidNew(nextUid)
    /\ UNCHANGED <<variant, users, store, ipc, last, varsSend, varsParse>>

\* One iteration of the insert loop of DB.StoreMessage.
TxInsert(t) ==
    LET own == txs[t]
        frame == txs[CallFrame(t)]
    IN  /\ own.pc = "store"
        /\ own.k <= Len(own.rcptTo)
        /\ IF ~ContainsAt(own.rcptTo[own.k])
           THEN /\ txs' = [txs EXCEPT ![t].k = @ + 1]
                /\ UNCHANGED <<store, nextUid>>
           ELSE IF own.k = own.insertFailAt
           THEN /\ txs' = [txs EXCEPT ![t].pc = "done", ![t].err = "storeFailed"]
                /\ UNCHANGED <<store, nextUid>>
           ELSE /\ store' = Append(store,
                                   [uid |-> own.messageUID,
                                    recipient |-> own.rcptTo[own.k],
                                    sender |-> frame.mailFrom,
                                    headers |-> frame.headers,
                                    message |-> frame.bodyStr,
                                    tx |-> t])
                /\ txs' = [txs EXCEPT ![t].k = @ + 1, ![t].messageUID = nextUid]
                /\ nextUid' = uuidNew(nextUid)
        /\ UNCHANGED <<variant, users, ipc, last, varsSend, varsParse>>

\* The loop is over: return nil.
TxReturn(t) ==
    /\ txs[t].pc = "store"
    /\ txs[t].k > Len(txs[t].rcptTo)
    /\ txs' = [txs EXCEPT ![t].pc = "done"]
    /\ UNCHANGED <<varsIntake, varsSend, varsParse>>

ConcNext ==
    \E t \in 1..MaxTx :
        \/ TxBegin(t)
        \/ TxInsert(t)
        \/ TxReturn(t)

ConcSpec == ConcInit /\ [][ConcNext]_vars

\* The records of invocation t in the mail table, in insertion order.
StoredBy(t) == SelectSeq(store, LAMBDA r : r.tx = t)

\* What invocation t stores when it runs alone: nothing if a recipient is
\* refused, else the records of DB.StoreMessage.
Alone(t) ==
    IF ValidateAllDB(txs[t].rcptTo, 1, 0).err # None THEN <<>>
    ELSE StoreMessage(txs[t].mailFrom, txs[t].rcptTo, txs[t].insertFailAt, 1).records

\* C26: inbound transactions are isolated under every interleaving of the
\* invocations of HandleMessage: every record in the mail table carries the
\* sender, the headers and the body of the transaction that named its
\* recipient, and when all invocations have returned the records of each
\* are those it stores when it runs alone.
C26_TransactionsIsolated ==
    /\ \A i \in 1..Len(store) :
           LET r == store[i]
               own == txs[r.tx]
           IN  /\ r.sender = own.mailFrom
               /\ r.headers = ParsedData[own.data].headers
               /\ r.message = ParsedData[own.data].body
               /\ \E k \in 1..Len(own.rcptTo) : r.recipient = own.rcptTo[k]
    /\ (txs # <<>> /\ \A t \in DOMAIN txs : txs[t].pc = "done") =>
           \A t \in DOMAIN txs :
               /\ Len(StoredBy(t)) = Len(Alone(t))
               /\ \A i \in 1..Len(Alone(t)) :
                      /\ StoredBy(t)[i].recipient = Alone(t)[i].recipient
                      /\ StoredBy(t)[i].sender = Alone(t)[i].sender

\* C26 witness: two transactions to the same recipient with different
\* senders and data have returned, and their inserts were interleaved.
C26_Witness ==
    /\ \A t \in DOMAIN txs : txs[t].pc = "done"
    /\ \E i, j, k \in 1..Len(store) :
           /\ i < j /\ j < k
           /\ store[i].tx = store[k].tx
           /\ store[j].tx # store[i].tx
           /\ store[j].sender # store[i].sender
           /\ store[j].recipient = store[i].recipient

(***************************************************************************)
(* Termination of sendToDomain.                                            *)
(***************************************************************************)
Trying == pc \in {"dial", "session"}

\* While the candidates are tried the index never goes back, and a failed
\* session is followed by the next candidate.
C22_ForwardStep ==
    (Trying /\ Trying') =>
        /\ mxRecords' = mxRecords
        /\ idx' \in {idx, idx + 1}
        /\ (pc = "session" /\ pc' = "dial") => idx' = idx + 1
        /\ (pc = "dial" /\ pc' = "dial") => idx' = idx + 1

\* The candidates attempted are the first ones of the list, each once.
C22_AtMostOnce ==
    InCall =>
        /\ IsPrefix(attemptedServers, mxRecords)
        /\ Len(attempts) <= Len(mxRecords)
        /\ \A i, j \in 1..Len(attemptedServers) :
               i # j => attemptedServers[i].host # attemptedServers[j].host

\* C22: sendToDomain terminates for every candidate list and every outcome
\* of each host: each candidate is attempted at most once, the loop only
\* moves forward through the list, and from the first attempt on it reaches
\* the successful return or the all-failed return.
C22_Terminates ==
    /\ []C22_AtMostOnce
    /\ [][C22_ForwardStep]_vars
    /\ Trying ~> (pc = "returned" /\ ret.kind \in {"ok", "allFailed"})

\* C22 witness: every candidate of a full list was tried, one of them timed
\* out on connect, another failed in the session, and the call has returned.
C22_Witness ==
    /\ pc = "returned"
    /\ ret.kind = "allFailed"
    /\ Len(mxRecords) = MaxMX
    /\ Len(attempts) = MaxMX
    /\ \E i, j \in 1..Len(attempts) :
           attempts[i].err = "timeout" /\ attempts[j].err \in SessionErrors

\* C23: the message is split at its first blank line: the headers are those
\* of the lines before it, the body is the lines after it, none of which is
\* read as a header; without a blank line every line is a header line and
\* the body is empty. (A final line break of the body is not counted.)
C23_SplitAtFirstBlankLine ==
    (parser # "none" /\ WellFormedSinglePart(msg)) =>
        /\ parsed.headers = Written(msg)
        /\ StripFinalEOL(parsed.body) = StripFinalEOL(msg.body)

\* The entries of a header block without continuation lines: one for every
\* line with a valid name, its value joined with ", " to an earlier one.
RECURSIVE Entries(_, _)
Entries(lines, headers) ==
    IF lines = <<>> THEN headers
    ELSE LET l == Head(lines)
         IN  IF l.kind \in {"header", "empty"}
             THEN Entries(Tail(lines),
                      SetHeader(headers, l.name,
                                IF l.name \in DOMAIN headers
                                THEN headers[l.name] \o ", " \o l.value
                                ELSE l.value))
             ELSE Entries(Tail(lines), headers)

ValidName(k) ==
    k # "" /\ toLowerCase(k) = k /\ ~Contains(k, " ") /\ Len(k) <= 50

\* C24: malformed header lines are skipped: every key of the result is
\* non-empty, lower-case, without a space and at most 50 characters long,
\* and every line of the header block with a colon and a valid name gives
\* an entry with the trimmed text after the first colon, also when that
\* text is empty or has colons in it.
C24_MalformedSkipped ==
    (/\ parser # "none"
     /\ msg.mime.form = "none"
     /\ msg.sep
     /\ \A i \in 1..Len(msg.lines) : msg.lines[i].kind \notin {"cont", "ctype"}) =>
        /\ \A k \in DOMAIN parsed.headers : ValidName(k)
        /\ parsed.headers = Entries(msg.lines, <<>>)

\* C25: of several text/plain parts the first gives the body: the body is
\* the content of the first part whose content type contains text/plain,
\* never that of a later text/plain part or of a text/html part, in
\* DB.StoreMessage and in extractFromMultipart.
C25_FirstPlainTextPart ==
    (parser \in {"go", "web"} /\ msg \in SeveralPlainInputs) => parsed.body = "first"

====
